---- MODULE Spec2Model ----
(***************************************************************************)
(* A model of the cat-dev host library (rem-verse/sprig):                  *)
(*   - the host bridge registry       (pkg/cat-dev/src/lib.rs)             *)
(*   - the MION discovery engine      (pkg/cat-dev/src/mion/discovery.rs)  *)
(*   - the parameter-space client     (pkg/cat-dev/src/mion/parameter.rs)  *)
(*   - the serial line reader         (cmd/bridgectl/.../serial.rs)        *)
(*   - the identity codec             (mion/proto/control/announcement.rs) *)
(*   - the announcement decoder       (mion/proto/control/announcement.rs) *)
(*   - parameter name resolution      (mion/proto/parameter/well_known.rs) *)
(*   - the serial port timeouts       (serial/underlying/sys/unix.rs)      *)
(*   - the logging installer          (pkg/log/src/lib.rs)                 *)
(* Each subsystem has its own specifications (SpecRegistry; SpecDiscovery, *)
(* SpecStarved and SpecScan; SpecParams and SpecDump; SpecSerial;          *)
(* SpecCodec; SpecAnnouncement; SpecNames; SpecPort; SpecLogging); the     *)
(* variables of the other subsystems stay at their initial values.         *)
(*                                                                         *)
(* Strings are sequences of tokens (a token is one character, or a fixed   *)
(* run of characters such as the key prefix "BRIDGE_NAME_").  Option<T>    *)
(* is a sequence of length 0 (None) or 1 (Some).                           *)
(***************************************************************************)
EXTENDS Integers, Sequences, FiniteSets, TLC

VARIABLES
    \* ---- host registry (BridgeHostState) ----
    configuration,   \* the Ini map: section -> (key -> Option<String>)
    regLast,         \* the last registry call and what it returned
    \* ---- discovery (discover_bridges_with_logging_hooks and its callers) ----
    now,             \* the clock, in seconds
    ifaceCfg,        \* interface -> whether it has a broadcast address
    flavor,          \* the tokio runtime: "multi_thread" or "current_thread"
    taskPc,          \* interface -> where its broadcast task is
    taskErr,         \* interface -> the error its task ended with
    aborted,         \* the tasks abort_all reached before they finished
    sockOpen,        \* the interfaces whose UDP socket is open
    sockQ,           \* interface -> datagrams waiting in its socket
    listening,       \* listening_sockets, in join order
    discPc,          \* "joining", "ok" (stream returned) or "err"
    discErr,         \* the error discover_bridges returned
    our_addresses,   \* the local addresses of the listening sockets
    streams,         \* the sockets still in the select_all
    createdAt,       \* when the identity stream was created
    timeout_at,      \* the receive task's deadline
    rxPc,            \* the receive task: "none", "running" or "done"
    rxEnd,           \* why the receive task ended: "deadline" or "closed"
    rxLast,          \* the last datagram the receive task took, and its fate
    chan,            \* identities queued in the unbounded channel
    delivered,       \* every identity pushed on the channel so far
    senderAlive,     \* the receive task still holds the sender
    receiverOpen,    \* the caller still holds the receiver
    arrivals,        \* datagrams that have arrived so far
    mode,            \* the caller: "stream", "collect" or "find"
    consPc,          \* the caller: "wait", "running", "eos", "dropped", "done"
    early_timeout,   \* Option<seconds>: the caller's early cutoff
    find_by,         \* the filter of find_mion
    sleepAt,         \* when the sleep of the current select! was created
    scanStart,       \* when the caller's scan loop started
    doneAt,          \* when the caller's scan returned
    results,         \* the Vec of the collect form / the find result
    received,        \* every identity recv() handed to the scan loop, in order
    \* ---- parameter space (get_ and set_parameters_with_logging_hooks) ----
    pKind,           \* the call made: "none", "get" or "set"
    pTimeout,        \* Option<seconds>: the timeout argument
    pNow,            \* the clock, in seconds
    pStart,          \* when the call was made
    pSleepAt,        \* when the sleep of the current select! was created
    pDoneAt,         \* when the call returned
    pPeer,           \* every byte the device sends in answer to the dump
    pPc,             \* where the call is
    pMuts,           \* parameters_to_set
    devParams,       \* the 512-byte block the device holds
    pGot,            \* got_parameters: the decoded dump
    pNew,            \* new_parameters
    pOld,            \* old_values_map
    pWire,           \* the requests written to the socket, in order
    pHooks,          \* the logging hooks fired, in order
    pResult,         \* what the call returned
    \* ---- serial line reader (SerialLines) ----
    sInput,          \* every byte the port will send before end of file
    sSource,         \* the bytes the port has not delivered yet
    sAvail,          \* the bytes the BufReader holds
    sBytes,          \* SerialLines.bytes
    sBuf,            \* SerialLines.buf (a String, as its bytes)
    sRead,           \* SerialLines.read
    sPc,             \* "idle" between next_line calls, "reading" inside one
    sOut,            \* what the next_line calls returned, in order
    sIoErrors,       \* read errors the port has raised
    \* ---- identity codec (MionIdentity <-> Bytes) ----
    cId,             \* the identity handed to the encoder
    cBytes,          \* the packet the encoder produced
    cBack,           \* what decoding that packet returned
    cPc,             \* "made", "encoded" or "decoded"
    \* ---- announcement decoder (Bytes -> MionIdentityAnnouncement) ----
    annPacket,       \* the packet handed to the decoder
    annResult,       \* what try_from returned (<<"None">> before the call)
    \* ---- parameter name resolution (index_from_parameter_name) ----
    lookups,         \* name -> what index_from_parameter_name returned for it
    \* ---- serial port (RawSyncSerialPort) ----
    read_timeout_ms, \* the port's read timeout, a u32 as <<high, low>> halves
    write_timeout_ms,\* the port's write timeout, a u32 as <<high, low>> halves
    portLast,        \* the last timeout setter called and what it returned
    \* ---- logging installer (install_logging_handlers) ----
    HAS_INITIALIZED_LOGGING, \* the value inside the static Mutex<bool>
    logEnv,          \* the process environment the installer reads
    logPc,           \* caller -> "idle", "guarded" (past the guard) or "done"
    logResult,       \* caller -> what its call returned
    installed        \* how many times a subscriber was installed (.init())

regVars == <<configuration, regLast>>
setupVars == <<ifaceCfg, flavor, taskPc, taskErr, aborted, listening, discPc, discErr>>
netVars == <<sockOpen, sockQ, arrivals>>
rxVars == <<our_addresses, streams, createdAt, timeout_at, rxPc, rxEnd, rxLast,
            delivered, senderAlive>>
consVars == <<mode, consPc, early_timeout, find_by, sleepAt, scanStart, doneAt,
              results, received>>
paramVars == <<pKind, pTimeout, pNow, pStart, pSleepAt, pDoneAt, pPeer, pPc, pMuts, devParams, pGot, pNew, pOld, pWire, pHooks, pResult>>
discVars == <<now, setupVars, netVars, rxVars, chan, receiverOpen, consVars>>
serialVars == <<sInput, sSource, sAvail, sBytes, sBuf, sRead, sPc, sOut, sIoErrors>>
codecVars == <<cId, cBytes, cBack, cPc>>
annVars == <<annPacket, annResult>>
nameVars == <<lookups>>
portVars == <<read_timeout_ms, write_timeout_ms, portLast>>
logVars == <<HAS_INITIALIZED_LOGGING, logEnv, logPc, logResult, installed>>
smallVars == <<annVars, nameVars, portVars, logVars>>
notDisc == <<regVars, paramVars, serialVars, codecVars, smallVars>>
notParam == <<regVars, discVars, serialVars, codecVars, smallVars>>
notReg == <<discVars, paramVars, serialVars, codecVars, smallVars>>
notSerial == <<regVars, discVars, paramVars, codecVars, smallVars>>
notCodec == <<regVars, discVars, paramVars, serialVars, smallVars>>
bigVars == <<regVars, discVars, paramVars, serialVars, codecVars>>
notAnn == <<bigVars, nameVars, portVars, logVars>>
notName == <<bigVars, annVars, portVars, logVars>>
notPort == <<bigVars, annVars, nameVars, logVars>>
notLog == <<bigVars, annVars, nameVars, portVars>>

None == <<>>
Some(x) == <<x>>
IsSome(o) == o # <<>>
Unwrap(o) == o[1]

(***************************************************************************)
(* Maps (HashMap / the Ini section maps).                                  *)
(***************************************************************************)
EmptyMap == <<>>
MapSet(m, k, v) == [x \in (DOMAIN m) \cup {k} |-> IF x = k THEN v ELSE m[x]]
MapRemove(m, k) == [x \in (DOMAIN m) \ {k} |-> m[x]]

(***************************************************************************)
(* Bounds of the model.                                                    *)
(***************************************************************************)
MaxBridges == 2      \* bridges the registry holds at once
MaxIfaces == 2       \* local interfaces the enumerator yields
MaxArrivals == 2     \* datagrams arriving during one discovery
MaxTime == 12        \* the clock stops here (seconds)
MaxSetupDelay == 1   \* seconds a broadcast task may spend suspended in send_to
MaxMutations == 2    \* entries in one mutation list
MaxInput == 4        \* bytes the serial port sends before end of file
MaxChunk == 2        \* bytes one read of the port delivers at most
MaxIoErrors == 1     \* read errors the serial port raises
FirstSegment == 100  \* bytes a read returns when the answer comes in parts
MaxLookups == 2      \* names resolved in one run
MaxCallers == 3      \* threads that call install_logging_handlers

(***************************************************************************)
(* Host registry: names, keys and IPv4 text.                               *)
(***************************************************************************)
BRIDGE_NAME_KEY_PREFIX == "BRIDGE_NAME_"
HOST_BRIDGES_SECTION == "HOST_BRIDGES"
DEFAULT_BRIDGE_KEY == <<"BRIDGE_DEFAULT_NAME">>
MaxNameBytes == 255

\* The tokens bridge names are built from: two plain characters, the key
\* prefix itself (a name may contain it), a run of 250 'z', one
\* non-ASCII character, and the ASCII control characters CR and LF.
NameTokens == {"a", "b", BRIDGE_NAME_KEY_PREFIX, "z*250", "U+29E3D", "\r", "\n"}

TokenBytes(t) ==
    CASE t = BRIDGE_NAME_KEY_PREFIX -> 12
      [] t = "z*250" -> 250
      [] t = "U+29E3D" -> 4
      [] OTHER -> 1

TokenIsAscii(t) == t # "U+29E3D"

RECURSIVE StrLen(_)
StrLen(s) == IF s = <<>> THEN 0 ELSE TokenBytes(Head(s)) + StrLen(Tail(s))

IsAscii(s) == \A i \in 1..Len(s) : TokenIsAscii(s[i])

\* The names the registry is called with: the empty name, plain names, a
\* name that itself starts with the key prefix, names of 255 and 256
\* bytes, a non-ASCII name, and a name that holds a line break.
Names ==
    { <<>>, <<"a">>, <<"b">>, <<BRIDGE_NAME_KEY_PREFIX, "a">>, <<"a", "\r", "\n">>,
      <<"z*250", "a", "a", "a", "a", "a">>,
      <<"z*250", "a", "a", "a", "a", "a", "a">>,
      <<"U+29E3D">> }

Ips == {<<192, 168, 7, 40>>, <<10, 0, 0, 1>>}

DigitChars == <<"0", "1", "2", "3", "4", "5", "6", "7", "8", "9">>
IsDigit(c) == \E d \in 1..10 : DigitChars[d] = c
DigitValue(c) == (CHOOSE d \in 1..10 : DigitChars[d] = c) - 1

FormatU8(n) ==
    IF n >= 100
    THEN <<DigitChars[(n \div 100) + 1], DigitChars[((n \div 10) % 10) + 1],
           DigitChars[(n % 10) + 1]>>
    ELSE IF n >= 10
    THEN <<DigitChars[(n \div 10) + 1], DigitChars[(n % 10) + 1]>>
    ELSE <<DigitChars[n + 1]>>

\* format!("{bridge_ip}")
FormatIpv4(ip) ==
    FormatU8(ip[1]) \o <<".">> \o FormatU8(ip[2]) \o <<".">>
        \o FormatU8(ip[3]) \o <<".">> \o FormatU8(ip[4])

RECURSIVE SplitOn(_, _)
SplitOn(s, sep) ==
    IF \E i \in 1..Len(s) : s[i] = sep
    THEN LET i == CHOOSE j \in 1..Len(s) :
                      s[j] = sep /\ \A k \in 1..(j - 1) : s[k] # sep
         IN  <<SubSeq(s, 1, i - 1)>> \o SplitOn(SubSeq(s, i + 1, Len(s)), sep)
    ELSE <<s>>

RECURSIVE DecimalValue(_)
DecimalValue(s) ==
    IF s = <<>> THEN 0
    ELSE DecimalValue(SubSeq(s, 1, Len(s) - 1)) * 10 + DigitValue(s[Len(s)])

ParseU8(seg) ==
    IF /\ Len(seg) \in 1..3
       /\ \A i \in 1..Len(seg) : IsDigit(seg[i])
       /\ (Len(seg) > 1 => seg[1] # "0")
       /\ DecimalValue(seg) <= 255
    THEN Some(DecimalValue(seg))
    ELSE None

\* value.parse::<Ipv4Addr>().ok()
ParseIpv4(s) ==
    LET parts == SplitOn(s, ".")
    IN  IF Len(parts) = 4 /\ \A i \in 1..4 : IsSome(ParseU8(parts[i]))
        THEN Some(<<Unwrap(ParseU8(parts[1])), Unwrap(ParseU8(parts[2])),
                    Unwrap(ParseU8(parts[3])), Unwrap(ParseU8(parts[4]))>>)
        ELSE None

\* format!("{BRIDGE_NAME_KEY_PREFIX}{bridge_name}")
BridgeKey(bridge_name) == <<BRIDGE_NAME_KEY_PREFIX>> \o bridge_name

\* str::trim_start_matches(BRIDGE_NAME_KEY_PREFIX): strips every leading
\* repetition of the prefix.
RECURSIVE TrimStartMatches(_)
TrimStartMatches(s) ==
    IF s # <<>> /\ Head(s) = BRIDGE_NAME_KEY_PREFIX
    THEN TrimStartMatches(Tail(s))
    ELSE s

\* Ini::get(section, key): None when the section or key is absent, or when
\* the key has no value.
IniGet(cfg, section, key) ==
    IF section \in DOMAIN cfg /\ key \in DOMAIN cfg[section]
    THEN cfg[section][key]
    ELSE None

\* Ini::set(section, key, value)
IniSet(cfg, section, key, value) ==
    IF section \in DOMAIN cfg
    THEN [cfg EXCEPT ![section] = MapSet(cfg[section], key, value)]
    ELSE MapSet(cfg, section, MapSet(EmptyMap, key, value))

\* Ini::remove_key(section, key)
IniRemoveKey(cfg, section, key) ==
    IF section \in DOMAIN cfg
    THEN [cfg EXCEPT ![section] = MapRemove(cfg[section], key)]
    ELSE cfg

\* BridgeHostState::get_default_bridge
get_default_bridge(cfg) ==
    LET host_key == IniGet(cfg, HOST_BRIDGES_SECTION, DEFAULT_BRIDGE_KEY)
    IN  IF IsSome(host_key)
        THEN Some(<<TrimStartMatches(Unwrap(host_key)),
                    IF IsSome(IniGet(cfg, HOST_BRIDGES_SECTION, Unwrap(host_key)))
                    THEN ParseIpv4(Unwrap(IniGet(cfg, HOST_BRIDGES_SECTION,
                                                 Unwrap(host_key))))
                    ELSE None>>)
        ELSE None

\* BridgeHostState::get_bridge: Some(<<ip, is_default>>) when configured.
get_bridge(cfg, bridge_name) ==
    LET default_key == IniGet(cfg, HOST_BRIDGES_SECTION, DEFAULT_BRIDGE_KEY)
        key == BridgeKey(bridge_name)
        is_default == default_key = Some(key)
        value == IniGet(cfg, HOST_BRIDGES_SECTION, key)
    IN  IF IsSome(value)
        THEN Some(<<ParseIpv4(Unwrap(value)), is_default>>)
        ELSE None

\* The name checks shared by upsert_bridge and set_default_bridge.
NameError(bridge_name) ==
    IF ~IsAscii(bridge_name) THEN "DeviceNameMustBeAscii"
    ELSE IF bridge_name = <<>> THEN "DeviceNameCannotBeEmpty"
    ELSE IF StrLen(bridge_name) > MaxNameBytes THEN "DeviceNameTooLong"
    ELSE "Ok"

RegCall(op, name, res, wasDefault) ==
    [op |-> op, name |-> name, res |-> res, wasDefault |-> wasDefault,
     out |-> <<>>]

\* The bridge keys of the section (every key but the default key).
BridgeKeys(cfg) ==
    IF HOST_BRIDGES_SECTION \in DOMAIN cfg
    THEN (DOMAIN cfg[HOST_BRIDGES_SECTION]) \ {DEFAULT_BRIDGE_KEY}
    ELSE {}

\* BridgeHostState::upsert_bridge
upsert_bridge(bridge_name, bridge_ip) ==
    /\ \/ BridgeKey(bridge_name) \in BridgeKeys(configuration)
       \/ Cardinality(BridgeKeys(configuration)) < MaxBridges
    /\ configuration' =
          IF NameError(bridge_name) = "Ok"
          THEN IniSet(configuration, HOST_BRIDGES_SECTION,
                      BridgeKey(bridge_name), Some(FormatIpv4(bridge_ip)))
          ELSE configuration
    /\ regLast' = RegCall("upsert_bridge", bridge_name, NameError(bridge_name), FALSE)
    /\ UNCHANGED notReg

\* BridgeHostState::remove_bridge
remove_bridge(bridge_name) ==
    /\ configuration' = IniRemoveKey(configuration, HOST_BRIDGES_SECTION,
                                     BridgeKey(bridge_name))
    /\ regLast' = RegCall("remove_bridge", bridge_name, "Ok",
                          /\ IsSome(get_bridge(configuration, bridge_name))
                          /\ Unwrap(get_bridge(configuration, bridge_name))[2])
    /\ UNCHANGED notReg

\* BridgeHostState::remove_default_bridge
remove_default_bridge ==
    /\ configuration' = IniRemoveKey(configuration, HOST_BRIDGES_SECTION,
                                     DEFAULT_BRIDGE_KEY)
    /\ regLast' = RegCall("remove_default_bridge", <<>>, "Ok", FALSE)
    /\ UNCHANGED notReg

\* BridgeHostState::set_default_bridge
set_default_bridge(bridge_name) ==
    LET res == IF NameError(bridge_name) # "Ok" THEN NameError(bridge_name)
               ELSE IF ~IsSome(IniGet(configuration, HOST_BRIDGES_SECTION,
                                      BridgeKey(bridge_name)))
               THEN "DefaultDeviceMustExist"
               ELSE "Ok"
    IN  /\ configuration' =
              IF res = "Ok"
              THEN IniSet(configuration, HOST_BRIDGES_SECTION, DEFAULT_BRIDGE_KEY,
                          Some(BridgeKey(bridge_name)))
              ELSE configuration
        /\ regLast' = RegCall("set_default_bridge", bridge_name, res, FALSE)
        /\ UNCHANGED notReg

\* load_explicit_path on a missing file: Ini::new_cs(), nothing configured.
RegInit ==
    /\ configuration = EmptyMap
    /\ regLast = RegCall("load", <<>>, "Ok", FALSE)

(***************************************************************************)
(* MION discovery: src/pkg/cat-dev/src/mion/discovery.rs                   *)
(***************************************************************************)
MION_ANNOUNCE_TIMEOUT_SECONDS == 10
AcknowledgeAnnouncement == 32
DETAILED_BLOCK_LENGTH == 239

Ok(x) == <<"Ok", x>>
Err(e) == <<"Err", e>>
IsOk(r) == r[1] = "Ok"

\* MionIdentity::try_from((Ipv4Addr, Bytes)).  Rust indexes from 0, TLA+ from
\* 1.  from_utf8 followed by is_ascii fails exactly when a byte is >= 0x80
\* (both failures are the same FieldEncodedIncorrectly error).
MionIdentityTryFrom(from_address, packet) ==
    IF Len(packet) < 17 THEN Err("NotEnoughData")
    ELSE IF packet[1] # AcknowledgeAnnouncement THEN Err("UnknownCommand")
    ELSE LET name_length == packet[8] IN
         IF Len(packet) < 16 + name_length THEN Err("NotEnoughData")
         ELSE IF name_length < 1 THEN Err("FieldNotLongEnough")
         ELSE IF Len(packet) > 16 + name_length + DETAILED_BLOCK_LENGTH
              THEN Err("UnexpectedTrailer")
         ELSE IF /\ Len(packet) # 16 + name_length
                 /\ Len(packet) # 16 + name_length + DETAILED_BLOCK_LENGTH
              THEN Err("UnexpectedTrailer")
         ELSE IF \E i \in 17..(16 + name_length) : packet[i] >= 128
              THEN Err("FieldEncodedIncorrectly")
         ELSE Ok([ detailed_all |->
                       IF Len(packet) > 16 + name_length
                       THEN Some(SubSeq(packet, 17 + name_length, Len(packet)))
                       ELSE None,
                   firmware_version |-> SubSeq(packet, 13, 16),
                   fpga_version |-> SubSeq(packet, 9, 12),
                   ip_address |-> from_address,
                   mac |-> SubSeq(packet, 2, 7),
                   name |-> SubSeq(packet, 17, 16 + name_length) ])

\* ---- the network the engine runs on ----
Ifaces == 1..MaxIfaces
LocalIp(i) == <<192, 168, 7, i>>
V4(ip) == <<"V4", ip>>
V6(ip) == <<"V6", ip>>
RemoteA == <<192, 168, 7, 40>>
RemoteB == <<192, 168, 7, 41>>
MacA == <<0, 37, 92, 186, 90, 0>>
MacB == <<0, 37, 92, 186, 90, 1>>
PktA == <<32>> \o MacA \o <<1>> \o <<1, 80, 14, 0>> \o <<0, 17, 113, 32>> \o <<65>>
PktB == <<32>> \o MacB \o <<1>> \o <<1, 80, 14, 0>> \o <<0, 17, 113, 32>> \o <<66>>
PktShort == <<42, 1>>
\* What recv_from can hand back: Ok((len, addr)) with the bytes, or Err.
RecvOk(from, data) == [ok |-> TRUE, from |-> from, data |-> data]
RecvErr == [ok |-> FALSE, from |-> V4(<<0, 0, 0, 0>>), data |-> <<>>]
Datagrams ==
    { RecvOk(V4(LocalIp(1)), PktA),
      RecvOk(V6(<<"fe80::1">>), PktA),
      RecvOk(V4(RemoteA), PktShort),
      RecvOk(V4(RemoteA), PktA),
      RecvOk(V4(RemoteB), PktB),
      RecvErr }
\* The replies a scan is shown.
ScanDatagrams ==
    { RecvOk(V4(RemoteA), PktShort),
      RecvOk(V4(RemoteA), PktA),
      RecvOk(V4(RemoteB), PktB) }
EarlyTimeouts == { None, Some(0), Some(3) }
FindBys == { <<"MacAddress", MacA>>, <<"Name", <<66>>>>, <<"Name", <<90>>>> }

NoDatagram == [n |-> 0, sock |-> 0, from |-> V4(<<0, 0, 0, 0>>), data |-> <<>>,
               fate |-> "none", closed |-> FALSE]

\* ---- discover_bridges_with_logging_hooks: the per-interface tasks ----
Suspended(i) == taskPc[i] \in {"spawned", "bound"}
Finished(i) == taskPc[i] \in {"done_none", "done_sock", "failed"}

\* broadcast_to_mions_on_interface up to its first suspension (send_to):
\* the hook, the broadcast-address lookup and the bind.
TaskStart(i, outcome) ==
    /\ discPc = "joining"
    /\ taskPc[i] = "spawned"
    /\ i \notin aborted
    /\ IF outcome = "hook_panics"
       THEN /\ taskPc' = [taskPc EXCEPT ![i] = "failed"]
            /\ taskErr' = [taskErr EXCEPT ![i] = "JoinFailure"]
            /\ UNCHANGED sockOpen
       ELSE IF ifaceCfg[i] = "no_broadcast"
       THEN /\ taskPc' = [taskPc EXCEPT ![i] = "done_none"]
            /\ UNCHANGED <<taskErr, sockOpen>>
       ELSE IF outcome = "bind_fails"
       THEN /\ taskPc' = [taskPc EXCEPT ![i] = "failed"]
            /\ taskErr' = [taskErr EXCEPT ![i] = "BindAddressError"]
            /\ UNCHANGED sockOpen
       ELSE /\ taskPc' = [taskPc EXCEPT ![i] = "bound"]
            /\ sockOpen' = sockOpen \cup {i}
            /\ UNCHANGED taskErr
    /\ UNCHANGED <<now, ifaceCfg, flavor, aborted, listening, discPc, discErr, sockQ,
                   arrivals, rxVars, chan, receiverOpen, consVars>>
    /\ UNCHANGED notDisc

\* ... and from there to its end: set_broadcast and send_to.  A task that
\* fails drops its socket.
TaskSend(i, outcome) ==
    /\ discPc = "joining"
    /\ taskPc[i] = "bound"
    /\ i \notin aborted
    /\ IF outcome = "ok"
       THEN /\ taskPc' = [taskPc EXCEPT ![i] = "done_sock"]
            /\ UNCHANGED <<taskErr, sockOpen>>
       ELSE /\ taskPc' = [taskPc EXCEPT ![i] = "failed"]
            /\ taskErr' = [taskErr EXCEPT ![i] = outcome]
            /\ sockOpen' = sockOpen \ {i}
    /\ UNCHANGED <<now, ifaceCfg, flavor, aborted, listening, discPc, discErr, sockQ,
                   arrivals, rxVars, chan, receiverOpen, consVars>>
    /\ UNCHANGED notDisc

\* An aborted task is dropped at its suspension point, with what it holds.
TaskCancel(i) ==
    /\ i \in aborted
    /\ Suspended(i)
    /\ taskPc' = [taskPc EXCEPT ![i] = "cancelled"]
    /\ sockOpen' = sockOpen \ {i}
    /\ UNCHANGED <<now, ifaceCfg, flavor, taskErr, aborted, listening, discPc, discErr,
                   sockQ, arrivals, rxVars, chan, receiverOpen, consVars>>
    /\ UNCHANGED notDisc

AbortNone == {}

\* tasks.abort_all(): reaches the tasks that have not finished.
AbortAll == { j \in Ifaces : Suspended(j) }

\* One turn of `while let Some(joined) = tasks.join_next().await`.  On an
\* error the function returns: listening_sockets and the JoinSet (with the
\* outputs of finished tasks) are dropped.
Join(i) ==
    /\ discPc = "joining"
    /\ Finished(i)
    /\ IF taskPc[i] = "failed"
       THEN /\ aborted' = AbortAll
            /\ discPc' = "err"
            /\ discErr' = taskErr[i]
            /\ taskPc' = [j \in Ifaces |->
                            IF Finished(j) THEN "joined" ELSE taskPc[j]]
            /\ sockOpen' = { j \in sockOpen : Suspended(j) }
            /\ listening' = <<>>
            /\ consPc' = "done"
       ELSE /\ taskPc' = [taskPc EXCEPT ![i] = "joined"]
            /\ listening' = IF taskPc[i] = "done_sock"
                            THEN Append(listening, i) ELSE listening
            /\ UNCHANGED <<aborted, discPc, discErr, sockOpen, consPc>>
    /\ UNCHANGED <<now, ifaceCfg, flavor, taskErr, sockQ, arrivals, rxVars, chan,
                   receiverOpen, mode, early_timeout, find_by, sleepAt,
                   scanStart, doneAt, results,
                   received>>
    /\ UNCHANGED notDisc

Range(s) == { s[k] : k \in 1..Len(s) }

TimeoutDoubled(t) == t + MION_ANNOUNCE_TIMEOUT_SECONDS * 2

\* let timeout_at = Instant::now() + Duration::from_secs(10)
TimeoutAt(t) == t + MION_ANNOUNCE_TIMEOUT_SECONDS

\* join_next() returned None: build our_addresses and the select_all, create
\* the channel, spawn the receive task and return the receiver.
Finish ==
    /\ discPc = "joining"
    /\ \A i \in Ifaces : taskPc[i] \in {"absent", "joined"}
    /\ discPc' = "ok"
    /\ our_addresses' = { V4(LocalIp(i)) : i \in Range(listening) }
    /\ streams' = Range(listening)
    /\ createdAt' = now
    /\ timeout_at' = TimeoutAt(now)
    /\ rxPc' = "running"
    /\ senderAlive' = TRUE
    /\ receiverOpen' = TRUE
    /\ consPc' = "running"
    /\ sleepAt' = now
    /\ scanStart' = now
    /\ UNCHANGED <<now, ifaceCfg, flavor, taskPc, taskErr, aborted, listening, discErr,
                   netVars, rxEnd, rxLast, delivered, chan, mode, early_timeout,
                   find_by, doneAt, results,
                   received>>
    /\ UNCHANGED notDisc

\* ---- datagrams reach an open socket of the engine ----
Arrive(i, d) ==
    /\ discPc = "ok"
    /\ i \in sockOpen
    /\ arrivals < MaxArrivals
    /\ arrivals' = arrivals + 1
    /\ sockQ' = [sockQ EXCEPT ![i] = Append(@, [n |-> arrivals + 1, d |-> d])]
    /\ UNCHANGED <<now, setupVars, sockOpen, rxVars, chan, receiverOpen,
                   consVars>>
    /\ UNCHANGED notDisc

\* ---- the spawned receive task (discovery.rs 245-281) ----
StreamReady == { s \in streams : sockQ[s] # <<>> }
\* With no stream left in the select_all, single_stream.next() is ready
\* with None on every turn and the task takes `continue`: it spins in the
\* loop without ever returning to the executor.
Spinning == rxPc = "running" /\ streams = {}
\* On the one thread of a current_thread runtime a spinning task keeps the
\* timer driver and every other task from running, so no sleep completes.
\* A multi_thread runtime turns the driver on another worker.
Starved == flavor = "current_thread" /\ Spinning
TimerReady == now >= timeout_at /\ ~Starved
RxReady == rxPc = "running" /\ (StreamReady # {} \/ TimerReady)

NeverOurAddress(from) == FALSE

SocketNewest(q) == q[Len(q)]

\* unfold_socket: the next recv_from on a socket returns the datagram that
\* has waited longest.
SocketNext(q) == Head(q)

\* our_addresses.contains(&from_ip)
IsOurAddress(from) == from \in our_addresses

\* What the body of the `opt = single_stream.next()` branch does with one
\* datagram: the fate of the datagram, and the identity it decoded.
RxFate(d) ==
    IF ~d.ok THEN "stream_end"
    ELSE IF IsOurAddress(d.from) THEN "own"
    ELSE IF d.from[1] = "V6" THEN "v6"
    ELSE IF ~IsOk(MionIdentityTryFrom(d.from[2], d.data)) THEN "undecodable"
    ELSE IF receiverOpen THEN "sent"
    ELSE "send_failed"

\* select! took the stream branch: socket s yielded its next recv_from.
RxStream(s) ==
    /\ rxPc = "running"
    /\ s \in StreamReady
    /\ LET m == SocketNext(sockQ[s])
           fate == RxFate(m.d)
           identity == MionIdentityTryFrom(m.d.from[2], m.d.data)[2]
       IN  /\ sockQ' = [sockQ EXCEPT ![s] = Tail(@)]
           /\ rxLast' = [n |-> m.n, sock |-> s, from |-> m.d.from,
                         data |-> m.d.data, fate |-> fate,
                         closed |-> ~receiverOpen]
           /\ IF fate = "sent"
              THEN /\ chan' = Append(chan, identity)
                   /\ delivered' = Append(delivered,
                                          [id |-> identity, sock |-> s, n |-> m.n])
              ELSE UNCHANGED <<chan, delivered>>
           /\ IF fate = "send_failed"
              THEN /\ rxPc' = "done"
                   /\ rxEnd' = "closed"
                   /\ senderAlive' = FALSE
                   /\ streams' = {}
                   /\ sockOpen' = sockOpen \ streams
              ELSE IF fate = "stream_end"
              THEN /\ streams' = streams \ {s}
                   /\ sockOpen' = sockOpen \ {s}
                   /\ UNCHANGED <<rxPc, rxEnd, senderAlive>>
              ELSE UNCHANGED <<rxPc, rxEnd, senderAlive, streams, sockOpen>>
    /\ UNCHANGED <<now, setupVars, arrivals, our_addresses, createdAt,
                   timeout_at, receiverOpen, consVars>>
    /\ UNCHANGED notDisc

\* select! took the sleep_until(timeout_at) branch: break, dropping the
\* sender and the sockets.
RxTimeout ==
    /\ rxPc = "running"
    /\ TimerReady
    /\ rxPc' = "done"
    /\ rxEnd' = "deadline"
    /\ senderAlive' = FALSE
    /\ streams' = {}
    /\ sockOpen' = sockOpen \ streams
    /\ UNCHANGED <<now, setupVars, sockQ, arrivals, our_addresses, createdAt,
                   timeout_at, rxLast, delivered, chan, receiverOpen, consVars>>
    /\ UNCHANGED notDisc

\* ---- the caller holding the receiver directly (discover_bridges) ----
StreamRecv ==
    /\ mode = "stream"
    /\ consPc = "running"
    /\ ~Starved
    /\ IF chan # <<>>
       THEN /\ chan' = Tail(chan)
            /\ UNCHANGED <<consPc, doneAt>>
       ELSE /\ ~senderAlive
            /\ consPc' = "eos"
            /\ UNCHANGED <<chan, doneAt>>
    /\ UNCHANGED <<now, setupVars, netVars, rxVars, receiverOpen, mode,
                   early_timeout, find_by, sleepAt, scanStart, results,
                   received>>
    /\ UNCHANGED notDisc

StreamDrop ==
    /\ mode = "stream"
    /\ consPc = "running"
    /\ ~Starved
    /\ consPc' = "dropped"
    /\ receiverOpen' = FALSE
    /\ chan' = <<>>
    /\ UNCHANGED <<now, setupVars, netVars, rxVars, mode, early_timeout,
                   find_by, sleepAt, scanStart, doneAt, results,
                   received>>
    /\ UNCHANGED notDisc

\* ---- discover_and_collect_bridges / find_mion (by MAC or name) ----
\* early_timeout.unwrap_or(Duration::from_secs(MION_ANNOUNCE_TIMEOUT_SECONDS * 2))
EarlyOrDefault(e) == IF IsSome(e) THEN Unwrap(e)
                     ELSE MION_ANNOUNCE_TIMEOUT_SECONDS * 2
RecvReady == chan # <<>> \/ ~senderAlive
SleepReady == now >= sleepAt + EarlyOrDefault(early_timeout)
ScanReady == mode \in {"collect", "find"} /\ consPc = "running" /\ ~Starved
             /\ (RecvReady \/ SleepReady)

ContainsNever(seq, x) == FALSE

\* results.contains(&identity)
Contains(seq, x) == \E k \in 1..Len(seq) : seq[k] = x

MatchesAny(by, identity) == TRUE

Matches(by, identity) ==
    \/ by[1] = "MacAddress" /\ by[2] = identity.mac
    \/ by[1] = "Name" /\ by[2] = identity.name

\* select! took `opt = recv_channel.recv()`.  Leaving the loop returns, and
\* returning drops the receiver; staying in the loop builds a new sleep.
ScanRecv ==
    /\ mode \in {"collect", "find"}
    /\ consPc = "running"
    /\ ~Starved
    /\ RecvReady
    /\ IF chan = <<>>
       THEN /\ consPc' = "done"
            /\ doneAt' = now
            /\ receiverOpen' = FALSE
            /\ UNCHANGED <<chan, results, received, sleepAt>>
       ELSE LET identity == Head(chan) IN
            /\ received' = Append(received, identity)
            /\ IF mode = "find" /\ Matches(find_by, identity)
               THEN /\ results' = <<identity>>
                    /\ consPc' = "done"
                    /\ doneAt' = now
                    /\ receiverOpen' = FALSE
                    /\ chan' = <<>>
                    /\ UNCHANGED sleepAt
               ELSE /\ results' = IF mode = "collect" /\ ~Contains(results, identity)
                                  THEN Append(results, identity) ELSE results
                    /\ chan' = Tail(chan)
                    /\ sleepAt' = now
                    /\ UNCHANGED <<consPc, doneAt, receiverOpen>>
    /\ UNCHANGED <<now, setupVars, netVars, rxVars, mode, early_timeout,
                   find_by, scanStart>>
    /\ UNCHANGED notDisc

\* select! took the sleep branch: break.
ScanSleep ==
    /\ mode \in {"collect", "find"}
    /\ consPc = "running"
    /\ ~Starved
    /\ SleepReady
    /\ consPc' = "done"
    /\ doneAt' = now
    /\ receiverOpen' = FALSE
    /\ chan' = <<>>
    /\ UNCHANGED <<now, setupVars, netVars, rxVars, mode, early_timeout,
                   find_by, sleepAt, scanStart, results,
                   received>>
    /\ UNCHANGED notDisc

\* ---- time ----
\* A second passes only when no task is ready to run: a task whose select!
\* has a ready branch runs before the clock moves.  During the setup only a
\* task suspended in send_to can take time.
Tick ==
    /\ now < MaxTime
    /\ \/ /\ discPc = "joining"
          /\ now < MaxSetupDelay
          /\ \E i \in Ifaces : taskPc[i] = "bound"
       \/ /\ discPc = "ok"
          /\ ~RxReady
          /\ ~ScanReady
          /\ rxPc = "running" \/ consPc = "running"
    /\ now' = now + 1
    /\ UNCHANGED <<setupVars, netVars, rxVars, chan, receiverOpen, consVars>>
    /\ UNCHANGED notDisc

DiscStart(modes, cfgs, flavors) ==
    /\ now = 0
    /\ ifaceCfg \in cfgs
    /\ flavor \in flavors
    /\ taskPc = [i \in Ifaces |-> IF ifaceCfg[i] = "absent" THEN "absent"
                                  ELSE "spawned"]
    /\ taskErr = [i \in Ifaces |-> "none"]
    /\ aborted = {}
    /\ sockOpen = {}
    /\ sockQ = [i \in Ifaces |-> <<>>]
    /\ listening = <<>>
    /\ discPc = "joining"
    /\ discErr = "none"
    /\ our_addresses = {}
    /\ streams = {}
    /\ createdAt = 0
    /\ timeout_at = 0
    /\ rxPc = "none"
    /\ rxEnd = "none"
    /\ rxLast = NoDatagram
    /\ chan = <<>>
    /\ delivered = <<>>
    /\ senderAlive = FALSE
    /\ receiverOpen = FALSE
    /\ arrivals = 0
    /\ mode \in modes
    /\ consPc = "wait"
    /\ early_timeout \in (IF mode = "stream" THEN {None} ELSE EarlyTimeouts)
    /\ find_by \in (IF mode = "find" THEN FindBys ELSE {<<"none", <<>>>>})
    /\ sleepAt = 0
    /\ scanStart = 0
    /\ doneAt = 0
    /\ results = <<>>
    /\ received = <<>>

IfaceCfgs == [Ifaces -> {"absent", "no_broadcast", "broadcast"}]

\* A caller of discover_bridges, on any set of interfaces, under the
\* multi-thread runtime the binaries start (#[tokio::main]).
DiscInit == DiscStart({"stream"}, IfaceCfgs, {"multi_thread"})

\* The same caller under a current-thread runtime (#[tokio::test]).
StarvedInit == DiscStart({"stream"}, IfaceCfgs, {"current_thread"})

\* A caller of the collect form or of find_mion, on interfaces that can
\* broadcast.
ScanInit ==
    DiscStart({"collect", "find"}, [Ifaces -> {"broadcast"}], {"multi_thread"})

\* Discovery at rest, for the specifications that do not exercise it.
DiscIdle == DiscStart({"stream"}, {[i \in Ifaces |-> "absent"]}, {"multi_thread"})

DiscNext ==
    \/ \E i \in Ifaces, o \in {"ok", "hook_panics", "bind_fails"} : TaskStart(i, o)
    \/ \E i \in Ifaces, o \in {"ok", "SetBroadcastFailure", "IOError"} : TaskSend(i, o)
    \/ \E i \in Ifaces : TaskCancel(i)
    \/ \E i \in Ifaces : Join(i)
    \/ Finish
    \/ \E i \in Ifaces, d \in Datagrams : Arrive(i, d)
    \/ \E s \in Ifaces : RxStream(s)
    \/ RxTimeout
    \/ StreamRecv
    \/ StreamDrop
    \/ Tick

ScanNext ==
    \/ \E i \in Ifaces, o \in {"ok", "hook_panics", "bind_fails"} : TaskStart(i, o)
    \/ \E i \in Ifaces, o \in {"ok", "SetBroadcastFailure", "IOError"} : TaskSend(i, o)
    \/ \E i \in Ifaces : TaskCancel(i)
    \/ \E i \in Ifaces : Join(i)
    \/ Finish
    \/ \E i \in Ifaces, d \in ScanDatagrams : Arrive(i, d)
    \/ \E s \in Ifaces : RxStream(s)
    \/ RxTimeout
    \/ ScanRecv
    \/ ScanSleep
    \/ Tick

(***************************************************************************)
(* MION parameter space: src/pkg/cat-dev/src/mion/parameter.rs and         *)
(* src/pkg/cat-dev/src/mion/proto/parameter/                               *)
(***************************************************************************)
PARAMETER_COUNT == 512
DUMP_RESPONSE_LENGTH == 520
SET_RESPONSE_LENGTH == 12
MION_PARAMETER_TIMEOUT_SECONDS == 5

UsableTimeoutLate(timeout) ==
    (IF IsSome(timeout) THEN Unwrap(timeout) ELSE MION_PARAMETER_TIMEOUT_SECONDS) + 1

\* timeout.unwrap_or(Duration::from_secs(MION_PARAMETER_TIMEOUT_SECONDS))
UsableTimeout(timeout) ==
    IF IsSome(timeout) THEN Unwrap(timeout) ELSE MION_PARAMETER_TIMEOUT_SECONDS

LogHookFirst(log, record) == <<record>> \o log

\* A logging hook is called where the code stands: its record is the next
\* one the caller observes.
LogHook(log, record) == Append(log, record)

\* i32::from_le_bytes / put_i32_le on four bytes
I32FromLe(b) ==
    b[1] + b[2] * 256 + b[3] * 65536
         + (IF b[4] >= 128 THEN b[4] - 256 ELSE b[4]) * 16777216
I32ToLe(n) ==
    LET u == IF n < 0 THEN n + 2147483647 + 1 ELSE n
        top == IF n < 0 THEN (u \div 16777216) + 128 ELSE u \div 16777216
    IN  <<u % 256, (u \div 256) % 256, (u \div 65536) % 256, top>>

\* PacketType as i32, and back
PacketTypeRead == 0
PacketTypeWrite == 1
PacketTypeTryFrom(v) == IF v = 0 THEN Ok("Read")
                        ELSE IF v = 1 THEN Ok("Write")
                        ELSE Err("UnknownParamsPacketType")

\* Bytes::from(MionDumpParameters::new()): BytesMut::zeroed(8)
DumpRequestBytes == [k \in 1..8 |-> 0]

\* DumpedMionParameters::try_from(Bytes): the 512-byte block, or the error.
DumpedMionParametersTryFrom(packet) ==
    IF Len(packet) < DUMP_RESPONSE_LENGTH THEN Err("NotEnoughData")
    ELSE IF Len(packet) > DUMP_RESPONSE_LENGTH THEN Err("UnexpectedTrailer")
    ELSE LET packet_type == PacketTypeTryFrom(I32FromLe(SubSeq(packet, 1, 4)))
             size_or_error == I32FromLe(SubSeq(packet, 5, 8))
         IN  IF ~IsOk(packet_type) THEN packet_type
             ELSE IF packet_type[2] # "Read" THEN Err("UnknownParamsPacketType")
             ELSE IF size_or_error # PARAMETER_COUNT
                  THEN Err("ParamsPacketErrorCode")
             ELSE Ok(SubSeq(packet, 9, Len(packet)))

\* SetMionParameters::new(parameters) followed by Bytes::from(&it)
SetMionParametersBytes(parameters) ==
    IF Len(parameters) # PARAMETER_COUNT
    THEN Err("MIONParameterBodyNotCorrectLength")
    ELSE Ok(I32ToLe(PacketTypeWrite) \o I32ToLe(PARAMETER_COUNT) \o parameters)

\* SetMionParametersResponse::try_from(Bytes): the return code, or the error.
SetMionParametersResponseTryFrom(packet) ==
    IF Len(packet) < SET_RESPONSE_LENGTH THEN Err("NotEnoughData")
    ELSE IF Len(packet) > SET_RESPONSE_LENGTH THEN Err("UnexpectedTrailer")
    ELSE LET packet_type == PacketTypeTryFrom(I32FromLe(SubSeq(packet, 1, 4)))
             size_or_status == I32FromLe(SubSeq(packet, 5, 8))
         IN  IF ~IsOk(packet_type) THEN packet_type
             ELSE IF packet_type[2] # "Write" THEN Err("UnknownParamsPacketType")
             ELSE IF size_or_status # 4 THEN Err("ParamsPacketErrorCode")
             ELSE Ok(I32FromLe(SubSeq(packet, 9, 12)))

\* ---- well_known.rs ----
\* Names are sequences of tokens: a digit, a sign, a separator or a word.
Separators == {"-", "_", " "}
SdkNames(field) ==
    { <<"sdk", s, field>> : s \in Separators }
        \cup { <<"sdk", s, field, s, "version">> : s \in Separators }
        \cup { <<field, s, "version">> : s \in Separators }
        \cup { <<field>> }
NandModeNames ==
    { <<"nand", s, "mode">> : s \in Separators } \cup { <<"nand", "mode">> }

\* name.parse::<usize>(): an optional "+", then one or more digits.
ParseUsize(name) ==
    LET digits == IF name # <<>> /\ name[1] = "+" THEN Tail(name) ELSE name
    IN  IF digits # <<>> /\ \A k \in 1..Len(digits) : IsDigit(digits[k])
        THEN Some(DecimalValue(digits))
        ELSE None

IndexWithoutRange(name) ==
    IF IsSome(ParseUsize(name)) THEN ParseUsize(name)
    ELSE IF name \in NandModeNames THEN Some(2)
    ELSE IF name \in SdkNames("major") THEN Some(3)
    ELSE IF name \in SdkNames("minor") THEN Some(4)
    ELSE IF name \in SdkNames("misc") THEN Some(5)
    ELSE None

\* index_from_parameter_name
index_from_parameter_name(name) ==
    IF IsSome(ParseUsize(name)) /\ Unwrap(ParseUsize(name)) < PARAMETER_COUNT
    THEN Some(Unwrap(ParseUsize(name)))
    ELSE IF name \in NandModeNames THEN Some(2)
    ELSE IF name \in SdkNames("major") THEN Some(3)
    ELSE IF name \in SdkNames("minor") THEN Some(4)
    ELSE IF name \in SdkNames("misc") THEN Some(5)
    ELSE None

\* enum ParameterLocationSpecification { NameLike(String), Index(u16) }
NameLike(name) == <<"NameLike", name>>
Index(idx) == <<"Index", idx>>

\* ---- inputs ----
Locations ==
    { Index(0), Index(2), Index(511), Index(512),
      NameLike(<<"2">>), NameLike(<<"nand", "-", "mode">>),
      NameLike(<<"5", "1", "2">>), NameLike(<<"major">>) }
NewValues == { 7, 255 }
Mutations == Locations \X NewValues
RECURSIVE SeqsUpTo(_, _)
SeqsUpTo(S, n) ==
    IF n = 0 THEN { <<>> }
    ELSE SeqsUpTo(S, n - 1)
           \cup { Append(q, x) : q \in { r \in SeqsUpTo(S, n - 1) : Len(r) = n - 1 },
                                 x \in S }
\* The blocks the device may hold (location l is element l + 1).
DeviceBlocks == { [k \in 1..PARAMETER_COUNT |-> (k - 1) % 256],
                  [k \in 1..PARAMETER_COUNT |-> 0] }
\* What the device sends in answer to the dump request before it stops
\* sending: the whole response, its first part only, nothing, or a response
\* with another header.
DumpResponse(block) == I32ToLe(PacketTypeRead) \o I32ToLe(PARAMETER_COUNT) \o block
DumpReplies(block) ==
    { DumpResponse(block),
      SubSeq(DumpResponse(block), 1, FirstSegment),
      <<>>,
      I32ToLe(PacketTypeWrite) \o I32ToLe(PARAMETER_COUNT) \o block,
      I32ToLe(PacketTypeRead) \o I32ToLe(-1) \o block }
\* How many bytes one read_buf hands back: all that was sent, or only the
\* first segment of it when the answer reaches the host in parts (0 bytes
\* only at end of file).
ReadSizes(sent) ==
    { Len(sent) } \cup (IF Len(sent) > FirstSegment THEN { FirstSegment } ELSE {})
\* The timeout arguments of the calls.
GetTimeouts == { None, Some(0), Some(2) }
SetTimeouts == { Some(2) }
SetReads ==
    { I32ToLe(PacketTypeWrite) \o I32ToLe(4) \o I32ToLe(0),
      I32ToLe(PacketTypeWrite) \o I32ToLe(4) \o I32ToLe(-1),
      I32ToLe(PacketTypeWrite) \o I32ToLe(4),
      I32ToLe(PacketTypeRead) \o I32ToLe(4) \o I32ToLe(0) }

\* ---- set_parameters_with_logging_hooks ----
KeepBlock(block, location, new_value) == block

\* new_parameters[location] = new_value
StoreByte(block, location, new_value) ==
    [block EXCEPT ![location + 1] = new_value]

OrigValueFromNew(got, new, location) == new[location + 1]

\* let orig_value = got_parameters.get_raw_parameters()[location]
OrigValue(got, new, location) == got[location + 1]

\* The `for (location_spec, new_value) in parameters_to_set` loop, from the
\* k-th mutation on.  Indexing the 512-byte dump at a location >= 512
\* panics; an unknown name returns the error through `?`.
RECURSIVE MutationLoop(_, _, _)
MutationLoop(muts, got, acc) ==
    IF muts = <<>> THEN [acc EXCEPT !.status = "Ok"]
    ELSE LET location_spec == Head(muts)[1]
             new_value == Head(muts)[2]
             resolved == IF location_spec[1] = "Index"
                         THEN Some(location_spec[2])
                         ELSE index_from_parameter_name(location_spec[2])
         IN  IF ~IsSome(resolved)
             THEN [acc EXCEPT !.status = "MIONParameterNameNotKnown"]
             ELSE LET location == Unwrap(resolved) IN
                  IF location >= Len(got)
                  THEN [acc EXCEPT !.status = "Panic"]
                  ELSE MutationLoop(
                         Tail(muts), got,
                         [ status |-> acc.status,
                           hooks |-> LogHook(acc.hooks,
                                             <<"set_new_value",
                                               OrigValue(got, acc.new, location),
                                               new_value, location>>),
                           old |-> MapSet(acc.old, location,
                                          OrigValue(got, acc.new, location)),
                           new |-> StoreByte(acc.new, location, new_value) ])

ParamDone(res) ==
    /\ pPc' = "done"
    /\ pResult' = res
    /\ pDoneAt' = pNow

\* The call starts: usable_timeout is fixed and the session hook fires with
\* it, in milliseconds; the first select! creates its sleep.
ParamCall(kind, muts, timeout) ==
    /\ pPc = "idle"
    /\ pKind' = kind
    /\ pMuts' = muts
    /\ pTimeout' = timeout
    /\ pStart' = pNow
    /\ pSleepAt' = pNow
    /\ pHooks' = LogHook(pHooks, <<"tcp_session", UsableTimeout(timeout) * 1000>>)
    /\ pPc' = "connect"
    /\ UNCHANGED <<pNow, pDoneAt, pPeer, devParams, pGot, pNew, pOld, pWire, pResult>>
    /\ UNCHANGED notParam

\* get_parameters_with_logging_hooks
GetCall(timeout) == ParamCall("get", <<>>, timeout)

\* set_parameters_with_logging_hooks
SetCall(muts, timeout) == ParamCall("set", muts, timeout)

\* TcpStream::connect, then the connection-established hook.
Connect(ok) ==
    /\ pPc = "connect"
    /\ IF ok
       THEN /\ pPc' = "dump_write"
            /\ pHooks' = LogHook(pHooks, <<"connection_established">>)
            /\ UNCHANGED <<pResult, pDoneAt>>
       ELSE /\ ParamDone(Err("IOError"))
            /\ UNCHANGED pHooks
    /\ UNCHANGED <<pKind, pTimeout, pNow, pStart, pSleepAt, pPeer, pMuts,
                   devParams, pGot, pNew, pOld, pWire>>
    /\ UNCHANGED notParam

\* stream.writable() and stream.write(dump request), then the
\* write-finished hook.  The 8 bytes go out in one write; the device
\* answers with `reply`.
DumpWrite(ok, reply) ==
    /\ pPc = "dump_write"
    /\ IF ok
       THEN /\ pPc' = "dump_read"
            /\ pWire' = Append(pWire, DumpRequestBytes)
            /\ pPeer' = reply
            /\ pHooks' = LogHook(pHooks, <<"write_finished", DUMP_RESPONSE_LENGTH>>)
            /\ UNCHANGED <<pResult, pDoneAt>>
       ELSE /\ ParamDone(Err("IOError"))
            /\ UNCHANGED <<pWire, pPeer, pHooks>>
    /\ UNCHANGED <<pKind, pTimeout, pNow, pStart, pSleepAt, pMuts, devParams,
                   pGot, pNew, pOld>>
    /\ UNCHANGED notParam

\* The one read_buf, which hands back the first read_bytes bytes of what the
\* device sends, the read-finished hook, the length check and the decode.
\* The get call returns the dump.  The set call leaves its first select!,
\* runs the mutation loop (it has no suspension point) and enters its
\* second select!, which creates a new sleep.
DumpRead(read_bytes) ==
    /\ pPc = "dump_read"
    /\ read_bytes \in ReadSizes(pPeer)
    /\ LET resp_buff == SubSeq(pPeer, 1, read_bytes)
           decoded == DumpedMionParametersTryFrom(resp_buff)
           hooked == LogHook(pHooks, <<"read_finished", read_bytes>>)
       IN  IF read_bytes # DUMP_RESPONSE_LENGTH
           THEN /\ ParamDone(Err("NotEnoughData"))
                /\ pHooks' = hooked
                /\ UNCHANGED <<pGot, pNew, pOld, pSleepAt>>
           ELSE IF ~IsOk(decoded)
           THEN /\ ParamDone(decoded)
                /\ pHooks' = hooked
                /\ UNCHANGED <<pGot, pNew, pOld, pSleepAt>>
           ELSE IF pKind = "get"
           THEN /\ ParamDone(Ok(decoded[2]))
                /\ pGot' = decoded[2]
                /\ pHooks' = hooked
                /\ UNCHANGED <<pNew, pOld, pSleepAt>>
           ELSE LET got == decoded[2]
                    out == MutationLoop(pMuts, got,
                                        [status |-> "Running", hooks |-> hooked,
                                         old |-> EmptyMap, new |-> got])
                IN  /\ pGot' = got
                    /\ pHooks' = out.hooks
                    /\ pNew' = out.new
                    /\ pOld' = out.old
                    /\ IF out.status = "Ok"
                       THEN /\ pPc' = "set_write"
                            /\ pSleepAt' = pNow
                            /\ UNCHANGED <<pResult, pDoneAt>>
                       ELSE /\ UNCHANGED pSleepAt
                            /\ IF out.status = "Panic"
                               THEN ParamDone(<<"Panic", "index out of bounds">>)
                               ELSE ParamDone(Err(out.status))
    /\ UNCHANGED <<pKind, pTimeout, pNow, pStart, pPeer, pMuts, devParams, pWire>>
    /\ UNCHANGED notParam

\* The read_buf failed.
DumpReadError ==
    /\ pPc = "dump_read"
    /\ ParamDone(Err("IOError"))
    /\ UNCHANGED <<pKind, pTimeout, pNow, pStart, pSleepAt, pPeer, pMuts,
                   devParams, pGot, pNew, pOld, pWire, pHooks>>
    /\ UNCHANGED notParam

\* set_parameters_without_timeout up to its read: writable, the write of
\* the encoded block (which the device stores), the set write-finished hook.
SetWrite(ok) ==
    /\ pPc = "set_write"
    /\ LET encoded == SetMionParametersBytes(pNew) IN
       IF ~ok
       THEN /\ ParamDone(Err("IOError"))
            /\ UNCHANGED <<pWire, pHooks, devParams>>
       ELSE IF ~IsOk(encoded)
       THEN /\ ParamDone(encoded)
            /\ UNCHANGED <<pWire, pHooks, devParams>>
       ELSE /\ pPc' = "set_read"
            /\ pWire' = Append(pWire, encoded[2])
            /\ devParams' = SubSeq(encoded[2], 9, Len(encoded[2]))
            /\ pHooks' = LogHook(pHooks, <<"write_set_finished", SET_RESPONSE_LENGTH>>)
            /\ UNCHANGED <<pResult, pDoneAt>>
    /\ UNCHANGED <<pKind, pTimeout, pNow, pStart, pSleepAt, pPeer, pMuts, pGot,
                   pNew, pOld>>
    /\ UNCHANGED notParam

\* ... its read_buf, length check and decode; the call returns.
SetRead(resp_buff) ==
    /\ pPc = "set_read"
    /\ LET decoded == SetMionParametersResponseTryFrom(resp_buff) IN
       IF Len(resp_buff) # SET_RESPONSE_LENGTH
       THEN ParamDone(Err("NotEnoughData"))
       ELSE IF ~IsOk(decoded) THEN ParamDone(decoded)
       ELSE ParamDone(Ok(<<decoded[2], pOld>>))
    /\ UNCHANGED <<pKind, pTimeout, pNow, pStart, pSleepAt, pPeer, pMuts,
                   devParams, pGot, pNew, pOld, pWire, pHooks>>
    /\ UNCHANGED notParam

InSelect == pPc \in {"connect", "dump_write", "dump_read", "set_write", "set_read"}

\* The sleep(usable_timeout) branch of the current select! wins: the sleep
\* has elapsed and the other branch has not completed.
ParamTimeout ==
    /\ InSelect
    /\ pNow >= pSleepAt + UsableTimeout(pTimeout)
    /\ ParamDone(Err("TimeoutError"))
    /\ UNCHANGED <<pKind, pTimeout, pNow, pStart, pSleepAt, pPeer, pMuts,
                   devParams, pGot, pNew, pOld, pWire, pHooks>>
    /\ UNCHANGED notParam

\* A second passes while the call waits for the network.  Once the sleep of
\* the select! has elapsed the select! completes before the clock moves.
ParamTick ==
    /\ InSelect
    /\ pNow < pSleepAt + UsableTimeout(pTimeout)
    /\ pNow' = pNow + 1
    /\ UNCHANGED <<pKind, pTimeout, pStart, pSleepAt, pDoneAt, pPeer, pPc, pMuts,
                   devParams, pGot, pNew, pOld, pWire, pHooks, pResult>>
    /\ UNCHANGED notParam

ParamStart(blocks) ==
    /\ pKind = "none"
    /\ pTimeout = None
    /\ pNow = 0
    /\ pStart = 0
    /\ pSleepAt = 0
    /\ pDoneAt = 0
    /\ pPeer = <<>>
    /\ pPc = "idle"
    /\ pMuts = <<>>
    /\ devParams \in blocks
    /\ pGot = <<>>
    /\ pNew = <<>>
    /\ pOld = EmptyMap
    /\ pWire = <<>>
    /\ pHooks = <<>>
    /\ pResult = <<"None">>

\* No call has been made; the device holds some block.
ParamInit == ParamStart(DeviceBlocks)

\* The parameter space at rest, for the specifications that do not use it.
ParamIdle == ParamStart({[k \in 1..PARAMETER_COUNT |-> 0]})

\* A set call.
ParamNext ==
    \/ \E muts \in SeqsUpTo(Mutations, MaxMutations), t \in SetTimeouts : SetCall(muts, t)
    \/ \E ok \in BOOLEAN : Connect(ok)
    \/ \E ok \in BOOLEAN, reply \in DumpReplies(devParams) : DumpWrite(ok, reply)
    \/ \E n \in ReadSizes(pPeer) : DumpRead(n)
    \/ DumpReadError
    \/ \E ok \in BOOLEAN : SetWrite(ok)
    \/ \E r \in SetReads : SetRead(r)
    \/ ParamTimeout
    \/ ParamTick

\* A get call.
DumpNext ==
    \/ \E t \in GetTimeouts : GetCall(t)
    \/ \E ok \in BOOLEAN : Connect(ok)
    \/ \E ok \in BOOLEAN, reply \in DumpReplies(devParams) : DumpWrite(ok, reply)
    \/ \E n \in ReadSizes(pPeer) : DumpRead(n)
    \/ DumpReadError
    \/ ParamTimeout
    \/ ParamTick

(***************************************************************************)
(* Serial line reader:                                                     *)
(* src/cmd/bridgectl/src/commands/argv_helpers/serial.rs                   *)
(***************************************************************************)
CR == 13
\* The bytes the port is shown to send: 'a', 'b', '\r', the two bytes of
\* U+00E9 (0xC3 0xA9) and 0xFF, which no UTF-8 text contains.
SerialBytes == { 97, 98, CR, 195, 169, 255 }
IsContinuation(b) == b >= 128 /\ b <= 191

\* String::from_utf8(bytes).is_ok()
RECURSIVE ValidUtf8(_)
ValidUtf8(bs) ==
    IF bs = <<>> THEN TRUE
    ELSE LET b == bs[1]
             n == IF b < 128 THEN 1
                  ELSE IF b >= 194 /\ b <= 223 THEN 2
                  ELSE IF b >= 224 /\ b <= 239 THEN 3
                  ELSE IF b >= 240 /\ b <= 244 THEN 4
                  ELSE 0
         IN  /\ n > 0
             /\ Len(bs) >= n
             /\ \A k \in 2..n : IsContinuation(bs[k])
             /\ (b = 224) => bs[2] >= 160
             /\ (b = 237) => bs[2] <= 159
             /\ (b = 240) => bs[2] >= 144
             /\ (b = 244) => bs[2] <= 143
             /\ ValidUtf8(SubSeq(bs, n + 1, Len(bs)))

MemchrNever(needle, haystack) == None

\* memchr(needle, haystack): the 0-based position of the first needle.
memchr(needle, haystack) ==
    IF \E k \in 1..Len(haystack) : haystack[k] = needle
    THEN Some((CHOOSE k \in 1..Len(haystack) :
                  /\ haystack[k] = needle
                  /\ \A j \in 1..(k - 1) : haystack[j] # needle) - 1)
    ELSE None

\* put_back_original_data: what is left in `output`.
put_back_original_data(vector, num_bytes_read) ==
    SubSeq(vector, 1, Len(vector) - num_bytes_read)

\* finish_string_read(io_res, utf8_res, read, output, false) on the bytes
\* taken out of `bytes`: the new `output` and the result.
finish_string_read(io_res, taken, read) ==
    IF IsOk(io_res) /\ ValidUtf8(taken)
    THEN [output |-> taken, res |-> io_res]
    ELSE IF ValidUtf8(taken)
    THEN [output |-> taken, res |-> io_res]
    ELSE IF IsOk(io_res)
    THEN [output |-> put_back_original_data(taken, io_res[2]),
          res |-> Err("InvalidData")]
    ELSE [output |-> put_back_original_data(taken, read), res |-> io_res]

\* The rest of poll_next_line once read_until_internal has returned io_res
\* (with `read` as that call left it): read_line_internal's from_utf8 and
\* finish_string_read, then the None / strip '\r' / take(buf) tail.
LineReturn(io_res, all_bytes, read) ==
    LET fin == finish_string_read(io_res, all_bytes, read)
    IN  IF ~IsOk(fin.res)
        THEN /\ sBuf' = fin.output
             /\ sOut' = Append(sOut, fin.res)
        ELSE IF fin.res[2] = 0 /\ fin.output = <<>>
        THEN /\ sBuf' = <<>>
             /\ sOut' = Append(sOut, Ok(None))
        ELSE /\ sBuf' = <<>>
             /\ sOut' = Append(sOut,
                   Ok(Some(IF fin.output # <<>> /\ fin.output[Len(fin.output)] = CR
                           THEN SubSeq(fin.output, 1, Len(fin.output) - 1)
                           ELSE fin.output)))

Ended == sOut # <<>> /\ sOut[Len(sOut)] = Ok(None)

\* One turn of the loop of read_until_internal inside a next_line call
\* (the first turn starts the call).  poll_fill_buf hands out what the
\* BufReader holds, or, when it holds nothing, the next chunk of k bytes the
\* port delivers (none at end of file).  The turn that sees the delimiter
\* or end of file returns from the call.
ReadTurn(k) ==
    /\ ~Ended
    /\ k <= Len(sSource)
    /\ (k = 0) = (sAvail # <<>> \/ sSource = <<>>)
    /\ LET available == IF sAvail # <<>> THEN sAvail ELSE SubSeq(sSource, 1, k)
           rest == IF sAvail # <<>> THEN sSource
                   ELSE SubSeq(sSource, k + 1, Len(sSource))
           i == memchr(CR, available)
           done == IsSome(i)
           used == IF done THEN Unwrap(i) + 1 ELSE Len(available)
           grown == sBytes \o SubSeq(available, 1, used)
       IN  /\ sSource' = rest
           /\ sAvail' = SubSeq(available, used + 1, Len(available))
           /\ IF done \/ used = 0
              THEN /\ sPc' = "idle"
                   /\ sBytes' = <<>>
                   /\ sRead' = 0
                   /\ LineReturn(Ok(sRead + used), grown, 0)
              ELSE /\ sPc' = "reading"
                   /\ sBytes' = grown
                   /\ sRead' = sRead + used
                   /\ UNCHANGED <<sBuf, sOut>>
    /\ UNCHANGED <<sInput, sIoErrors>>
    /\ UNCHANGED notSerial

\* poll_fill_buf fails: read_until_internal returns the error through `?`
\* without resetting `read`.
ReadError ==
    /\ ~Ended
    /\ sIoErrors < MaxIoErrors
    /\ sIoErrors' = sIoErrors + 1
    /\ sPc' = "idle"
    /\ sBytes' = <<>>
    /\ LineReturn(Err("IoError"), sBytes, sRead)
    /\ UNCHANGED <<sInput, sSource, sAvail, sRead>>
    /\ UNCHANGED notSerial

SerialStart(inputs) ==
    /\ sInput \in inputs
    /\ sSource = sInput
    /\ sAvail = <<>>
    /\ sBytes = <<>>
    /\ sBuf = <<>>
    /\ sRead = 0
    /\ sPc = "idle"
    /\ sOut = <<>>
    /\ sIoErrors = 0

\* SerialLines as spawn_serial_log_task builds it, on a port that will
\* send any of the byte sequences.
SerialInit == SerialStart(SeqsUpTo(SerialBytes, MaxInput))

SerialIdle == SerialStart({<<>>})

SerialNext ==
    \/ \E k \in 0..MaxChunk : ReadTurn(k)
    \/ ReadError

(***************************************************************************)
(* Identity codec:                                                         *)
(* src/pkg/cat-dev/src/mion/proto/control/announcement.rs                  *)
(***************************************************************************)
\* MionIdentity::new: the name checks, then the struct as given.
MionIdentityNew(detailed_data, firmware_version, fpga_version, ip_address, mac, name) ==
    IF \E k \in 1..Len(name) : name[k] >= 128 THEN Err("DeviceNameMustBeAscii")
    ELSE IF Len(name) > 255 THEN Err("DeviceNameTooLong")
    ELSE IF name = <<>> THEN Err("DeviceNameCannotBeEmpty")
    ELSE Ok([ detailed_all |-> detailed_data,
              firmware_version |-> firmware_version,
              fpga_version |-> fpga_version,
              ip_address |-> ip_address,
              mac |-> mac,
              name |-> name ])

\* Bytes::from(&MionIdentity): command byte, MAC, name length, the two
\* versions and the name.
MionIdentityBytes(value) ==
    <<AcknowledgeAnnouncement>> \o value.mac
        \o <<IF Len(value.name) <= 255 THEN Len(value.name) ELSE 255>>
        \o value.fpga_version \o value.firmware_version \o value.name

\* ---- inputs ----
CodecNames == { <<>>, <<65>>, <<66, 67>>, <<195, 169>> }
CodecFpgaVersions == { <<1, 80, 14, 0>>, <<19, 5, 32, 9>> }
\* The 239-byte detailed blocks a bridge may have sent.
DetailedBlocks == { [k \in 1..DETAILED_BLOCK_LENGTH |-> 0],
                    [k \in 1..DETAILED_BLOCK_LENGTH |-> k] }
CodecIdentities ==
    { MionIdentityNew(d, <<0, 17, 113, 32>>, fpga, ip, mac, name)[2] :
        d \in { None } \cup { Some(b) : b \in DetailedBlocks },
        fpga \in CodecFpgaVersions,
        ip \in { RemoteA, RemoteB },
        mac \in { MacA, MacB },
        name \in { n \in CodecNames :
                     IsOk(MionIdentityNew(None, <<0, 0, 0, 0>>, <<0, 0, 0, 0>>,
                                          RemoteA, MacA, n)) } }

\* Bytes::from(&identity)
Encode ==
    /\ cPc = "made"
    /\ cBytes' = MionIdentityBytes(cId)
    /\ cPc' = "encoded"
    /\ UNCHANGED <<cId, cBack>>
    /\ UNCHANGED notCodec

\* MionIdentity::try_from((identity.ip_address(), packet))
Decode ==
    /\ cPc = "encoded"
    /\ cBack' = MionIdentityTryFrom(cId.ip_address, cBytes)
    /\ cPc' = "decoded"
    /\ UNCHANGED <<cId, cBytes>>
    /\ UNCHANGED notCodec

CodecStart(identities) ==
    /\ cId \in identities
    /\ cBytes = <<>>
    /\ cBack = <<"None">>
    /\ cPc = "made"

\* An identity built with MionIdentity::new, plain or detailed.
CodecInit == CodecStart(CodecIdentities)

CodecIdle == CodecStart({ MionIdentityNew(None, <<0, 17, 113, 32>>, <<1, 80, 14, 0>>,
                                          RemoteA, MacA, <<65>>)[2] })

CodecNext ==
    \/ Encode
    \/ Decode

(***************************************************************************)
(* Announcement decoder:                                                   *)
(* src/pkg/cat-dev/src/mion/proto/control/announcement.rs                  *)
(***************************************************************************)
AnnounceYourselves == 42
\* "MULTI_I/O_NETWORK_BOARD"
ANNOUNCEMENT_MESSAGE ==
    <<77, 85, 76, 84, 73, 95, 73, 47, 79, 95, 78, 69, 84, 87, 79, 82, 75, 95,
      66, 79, 65, 82, 68>>
\* "enumV1"
DETAIL_FLAG_MESSAGE == <<101, 110, 117, 109, 86, 49>>

AnnouncementIgnoresTail(packet) ==
    IF Len(packet) < 25
    THEN Err(<<"NotEnoughData", Len(packet)>>)
    ELSE IF packet[1] # AnnounceYourselves
    THEN Err(<<"UnknownCommand", packet[1]>>)
    ELSE IF SubSeq(packet, 2, 24) # ANNOUNCEMENT_MESSAGE \/ packet[25] # 0
    THEN Err(<<"FieldEncodedIncorrectly", "message">>)
    ELSE Ok([detailed |-> Len(packet) > 25])

\* MionIdentityAnnouncement::try_from(packet)
MionIdentityAnnouncementTryFrom(packet) ==
    IF Len(packet) < 25
    THEN Err(<<"NotEnoughData", Len(packet)>>)
    ELSE IF Len(packet) > 33
    THEN Err(<<"UnexpectedTrailer", SubSeq(packet, 34, Len(packet))>>)
    ELSE IF packet[1] # AnnounceYourselves
    THEN Err(<<"UnknownCommand", packet[1]>>)
    ELSE IF SubSeq(packet, 2, 24) # ANNOUNCEMENT_MESSAGE
    THEN Err(<<"FieldEncodedIncorrectly", "message">>)
    ELSE IF packet[25] # 0
    THEN Err(<<"FieldEncodedIncorrectly", "message">>)
    ELSE IF Len(packet) > 25
            /\ SubSeq(packet, 26, Len(packet)) # DETAIL_FLAG_MESSAGE \o <<0, 0>>
    THEN Err(<<"FieldEncodedIncorrectly", "detail">>)
    ELSE Ok([detailed |-> Len(packet) > 25])

\* Bytes::from(&announcement)
MionIdentityAnnouncementBytes(this) ==
    <<AnnounceYourselves>> \o ANNOUNCEMENT_MESSAGE \o <<0>>
        \o (IF this.detailed THEN DETAIL_FLAG_MESSAGE \o <<0, 0>> ELSE <<>>)

\* ---- inputs ----
\* The first 25 bytes of a packet: as the encoder writes them, with the
\* command byte of a search (0x3F), with one letter of the message changed,
\* and with the terminator not zero.
AnnHeads ==
    LET good == MionIdentityAnnouncementBytes([detailed |-> FALSE])
    IN  { good, [good EXCEPT ![1] = 63], [good EXCEPT ![2] = 109],
          [good EXCEPT ![25] = 1] }
\* What follows the 25th byte: every prefix of the detail marker and its
\* two zero bytes, the marker with other bytes after it, other bytes, and
\* tails that run past the 33rd byte.
AnnTails ==
    LET full == DETAIL_FLAG_MESSAGE \o <<0, 0>>
    IN  { SubSeq(full, 1, n) : n \in 0..8 }
          \cup { DETAIL_FLAG_MESSAGE \o <<1, 2>>, DETAIL_FLAG_MESSAGE \o <<0, 1>>,
                 [full EXCEPT ![1] = 69], [k \in 1..8 |-> 0], <<0>>, <<1>>,
                 full \o <<0>>, full \o <<1, 2, 3>>, [k \in 1..9 |-> 0] }
AnnouncementPackets ==
    { h \o t : h \in AnnHeads, t \in AnnTails }
        \cup { <<>>, <<AnnounceYourselves, 10, 0>>,
               SubSeq(MionIdentityAnnouncementBytes([detailed |-> FALSE]), 1, 24) }

\* A packet arrives and is decoded.
AnnDecode ==
    /\ annResult = <<"None">>
    /\ annResult' = MionIdentityAnnouncementTryFrom(annPacket)
    /\ UNCHANGED annPacket
    /\ UNCHANGED notAnn

AnnStart(packets) ==
    /\ annPacket \in packets
    /\ annResult = <<"None">>

AnnInit == AnnStart(AnnouncementPackets)

AnnIdle == AnnStart({ <<>> })

AnnNext == AnnDecode

(***************************************************************************)
(* Parameter name resolution:                                              *)
(* src/pkg/cat-dev/src/mion/proto/parameter/well_known.rs                  *)
(***************************************************************************)
\* The names looked up: every well-known name, decimal strings on both
\* sides of 512 (with a sign, with a leading zero), and names the table
\* does not hold.
DecimalNames ==
    { <<"0">>, <<"2">>, <<"3">>, <<"5">>, <<"5", "1", "1">>, <<"5", "1", "2">>,
      <<"1", "0", "2", "3">>, <<"+", "2">>, <<"0", "2">> }
UnknownNames ==
    { <<>>, <<"mics">>, <<"trust", " ", "me", " ", "babes">>, <<"-", "1">>,
      <<"nand">>, <<"sdk">>, <<"major", "-", "version", "-", "sdk">> }
ResolveNames ==
    NandModeNames \cup SdkNames("major") \cup SdkNames("minor")
        \cup SdkNames("misc") \cup DecimalNames \cup UnknownNames

\* A caller resolves one more name.
Resolve(name) ==
    /\ name \notin DOMAIN lookups
    /\ Cardinality(DOMAIN lookups) < MaxLookups
    /\ lookups' = MapSet(lookups, name, index_from_parameter_name(name))
    /\ UNCHANGED notName

NameInit == lookups = EmptyMap

NameNext == \E name \in ResolveNames : Resolve(name)

(***************************************************************************)
(* Serial port timeouts:                                                   *)
(* src/pkg/cat-dev/src/serial/underlying/sys/unix.rs                       *)
(* A count of milliseconds is a pair <<high, low>> standing for            *)
(* high * 65536 + low with low < 65536, so that a u32 is a pair whose      *)
(* high half is below 65536 and a u128 may have a larger one.              *)
(***************************************************************************)
DEFAULT_TIMEOUT_MS == <<0, 3000>>
U32_MAX == <<65535, 65535>>
MillisLess(a, b) == a[1] < b[1] \/ (a[1] = b[1] /\ a[2] < b[2])

\* Duration::as_millis: the whole milliseconds, as a u128.
as_millis(duration) == duration.millis

\* timeout_ms.try_into().unwrap_or(u32::MAX)
TryIntoU32OrMax(timeout_ms) ==
    IF timeout_ms[1] < 65536 THEN timeout_ms ELSE U32_MAX

TimeoutNeverRejected(timeout_ms) == FALSE

\* timeout_ms < 1 || timeout_ms > (u32::MAX - 1).into()
TimeoutRejected(timeout_ms) ==
    \/ MillisLess(timeout_ms, <<0, 1>>)
    \/ MillisLess(<<U32_MAX[1], U32_MAX[2] - 1>>, timeout_ms)

PortCall(op, new_timeout, res, before) ==
    [op |-> op, new_timeout |-> new_timeout, res |-> res, before |-> before]

\* RawSyncSerialPort::set_read_timeout
set_read_timeout(new_timeout) ==
    /\ IF TimeoutRejected(as_millis(new_timeout))
       THEN /\ portLast' = PortCall("set_read_timeout", new_timeout, "Err",
                                    read_timeout_ms)
            /\ UNCHANGED read_timeout_ms
       ELSE /\ read_timeout_ms' = TryIntoU32OrMax(as_millis(new_timeout))
            /\ portLast' = PortCall("set_read_timeout", new_timeout, "Ok",
                                    read_timeout_ms)
    /\ UNCHANGED write_timeout_ms
    /\ UNCHANGED notPort

\* RawSyncSerialPort::set_write_timeout
set_write_timeout(new_timeout) ==
    /\ IF TimeoutRejected(as_millis(new_timeout))
       THEN /\ portLast' = PortCall("set_write_timeout", new_timeout, "Err",
                                    write_timeout_ms)
            /\ UNCHANGED write_timeout_ms
       ELSE /\ write_timeout_ms' = TryIntoU32OrMax(as_millis(new_timeout))
            /\ portLast' = PortCall("set_write_timeout", new_timeout, "Ok",
                                    write_timeout_ms)
    /\ UNCHANGED read_timeout_ms
    /\ UNCHANGED notPort

\* ---- inputs ----
\* Durations on both sides of 1 ms and of 2^32 - 2 ms, with and without a
\* fraction of a millisecond.
Durations ==
    { [millis |-> m, micros |-> u] :
        m \in { <<0, 0>>, <<0, 1>>, <<0, 2>>, <<0, 3000>>, <<1, 0>>,
                <<65535, 65534>>, <<65535, 65535>>, <<65536, 0>> },
        u \in { 0, 999 } }

\* RawSyncSerialPort::new
PortInit ==
    /\ read_timeout_ms = DEFAULT_TIMEOUT_MS
    /\ write_timeout_ms = DEFAULT_TIMEOUT_MS
    /\ portLast = PortCall("new", [millis |-> <<0, 0>>, micros |-> 0], "Ok",
                           DEFAULT_TIMEOUT_MS)

PortNext ==
    \/ \E d \in Durations : set_read_timeout(d)
    \/ \E d \in Durations : set_write_timeout(d)

(***************************************************************************)
(* Logging installer: src/pkg/log/src/lib.rs                               *)
(***************************************************************************)
Callers == 1..MaxCallers

\* What the installer reads from the environment: whether a filter can be
\* built (from RUST_LOG, or else from SPRIG_LOGGING or the default), and
\* SPRIG_TOKIO_CONSOLE_ADDR: unset, a socket address, or some other text.
LogEnvs ==
    { [filter_ok |-> f, console_address |-> a] :
        f \in BOOLEAN, a \in { "unset", "address", "other" } }

\* if *locked_init { return Err(..) }
GuardTaken(held) == held

\* The block that holds the lock: the check and the store are one step.
LogGuard(c) ==
    /\ logPc[c] = "idle"
    /\ IF GuardTaken(HAS_INITIALIZED_LOGGING)
       THEN /\ logPc' = [logPc EXCEPT ![c] = "done"]
            /\ logResult' = [logResult EXCEPT ![c] = "Err: already initialized"]
            /\ UNCHANGED HAS_INITIALIZED_LOGGING
       ELSE /\ HAS_INITIALIZED_LOGGING' = TRUE
            /\ logPc' = [logPc EXCEPT ![c] = "guarded"]
            /\ UNCHANGED logResult
    /\ UNCHANGED <<logEnv, installed>>
    /\ UNCHANGED notLog

\* The rest of install_logging_handlers: the filter (`?`), the console
\* address (`?`), then .init() and Ok(()).
LogInstall(c) ==
    /\ logPc[c] = "guarded"
    /\ logPc' = [logPc EXCEPT ![c] = "done"]
    /\ IF ~logEnv.filter_ok
       THEN /\ logResult' = [logResult EXCEPT ![c] = "Err: filter"]
            /\ UNCHANGED installed
       ELSE IF logEnv.console_address = "other"
       THEN /\ logResult' = [logResult EXCEPT ![c] = "Err: console address"]
            /\ UNCHANGED installed
       ELSE /\ logResult' = [logResult EXCEPT ![c] = "Ok"]
            /\ installed' = installed + 1
    /\ UNCHANGED <<HAS_INITIALIZED_LOGGING, logEnv>>
    /\ UNCHANGED notLog

LogStart(envs) ==
    /\ HAS_INITIALIZED_LOGGING = FALSE
    /\ logEnv \in envs
    /\ logPc = [c \in Callers |-> "idle"]
    /\ logResult = [c \in Callers |-> "none"]
    /\ installed = 0

\* A process start: nothing installed, any environment.
LogInit == LogStart(LogEnvs)

LogIdle == LogStart({ [filter_ok |-> TRUE, console_address |-> "unset"] })

LogNext ==
    \/ \E c \in Callers : LogGuard(c)
    \/ \E c \in Callers : LogInstall(c)

(***************************************************************************)
(* Host registry: listing and writing (src/pkg/cat-dev/src/lib.rs).        *)
(* Both walk the section's map in the order the map yields its keys,       *)
(* which the code does not fix: the order is an input.                     *)
(***************************************************************************)
\* The orders in which the section may yield its keys.
KeyOrders(cfg) ==
    IF HOST_BRIDGES_SECTION \in DOMAIN cfg
    THEN LET keys == DOMAIN cfg[HOST_BRIDGES_SECTION]
         IN  { q \in SeqsUpTo(keys, Cardinality(keys)) :
                 /\ Len(q) = Cardinality(keys)
                 /\ \A k \in keys : \E i \in 1..Len(q) : q[i] = k }
    ELSE { <<>> }

\* BridgeHostState::list_bridges, walking the keys in `order`.
RECURSIVE list_bridges(_, _, _)
list_bridges(cfg, order, bridges) ==
    IF order = <<>> THEN bridges
    ELSE LET key == Head(order)
             value == cfg[HOST_BRIDGES_SECTION][key]
             default_key == IniGet(cfg, HOST_BRIDGES_SECTION, DEFAULT_BRIDGE_KEY)
         IN  IF key = DEFAULT_BRIDGE_KEY \/ key[1] # BRIDGE_NAME_KEY_PREFIX
             THEN list_bridges(cfg, Tail(order), bridges)
             ELSE list_bridges(cfg, Tail(order),
                      MapSet(bridges, TrimStartMatches(key),
                             <<IF IsSome(value) THEN ParseIpv4(Unwrap(value)) ELSE None,
                               Some(key) = default_key>>))

\* A caller lists the bridges.
ListBridges(order) ==
    /\ regLast' = [RegCall("list_bridges", <<>>, "Ok", FALSE)
                      EXCEPT !.out = list_bridges(configuration, order, EmptyMap)]
    /\ UNCHANGED configuration
    /\ UNCHANGED notReg

\* Ini::writes(): the section header and one `key=value` line per key, each
\* ended by the platform's line ending ("\n", or "\r\n" on Windows).
RECURSIVE KeyLines(_, _, _)
KeyLines(cfg, order, line_ending) ==
    IF order = <<>> THEN <<>>
    ELSE LET key == Head(order)
             value == cfg[HOST_BRIDGES_SECTION][key]
         IN  key \o (IF IsSome(value) THEN <<"=">> \o Unwrap(value) ELSE <<>>)
                 \o line_ending \o KeyLines(cfg, Tail(order), line_ending)

writes(cfg, order, line_ending) ==
    IF HOST_BRIDGES_SECTION \in DOMAIN cfg
    THEN <<"[", HOST_BRIDGES_SECTION, "]">> \o line_ending
             \o KeyLines(cfg, order, line_ending)
    ELSE <<>>

\* if !s.contains("\r\n") { s = s.replace('\n', "\r\n") }
RECURSIVE ReplaceLf(_)
ReplaceLf(text) ==
    IF text = <<>> THEN <<>>
    ELSE (IF Head(text) = "\n" THEN <<"\r", "\n">> ELSE <<Head(text)>>)
             \o ReplaceLf(Tail(text))

NormaliseLineEndings(text) ==
    IF \E k \in 1..(Len(text) - 1) : text[k] = "\r" /\ text[k + 1] = "\n"
    THEN text
    ELSE ReplaceLf(text)

LineEndings == { <<"\n">>, <<"\r", "\n">> }

\* BridgeHostState::write_to_disk: `out` is the file as written; fs_ok is
\* whether create_dir_all and write succeed.
write_to_disk(order, line_ending, fs_ok) ==
    /\ regLast' =
          IF fs_ok
          THEN [RegCall("write_to_disk", <<>>, "Ok", FALSE)
                  EXCEPT !.out = NormaliseLineEndings(
                                     writes(configuration, order, line_ending))]
          ELSE RegCall("write_to_disk", <<>>, "FSError", FALSE)
    /\ UNCHANGED configuration
    /\ UNCHANGED notReg

(***************************************************************************)
(* Specifications                                                          *)
(***************************************************************************)
RegNext ==
    \/ \E n \in Names, ip \in Ips : upsert_bridge(n, ip)
    \/ \E n \in Names : remove_bridge(n)
    \/ remove_default_bridge
    \/ \E n \in Names : set_default_bridge(n)
    \/ \E order \in KeyOrders(configuration) : ListBridges(order)
    \/ \E order \in KeyOrders(configuration), le \in LineEndings, fs_ok \in BOOLEAN :
          write_to_disk(order, le, fs_ok)

vars == <<bigVars, smallVars>>

\* The subsystems that have not been started.
BigIdle == RegInit /\ DiscIdle /\ ParamIdle /\ SerialIdle /\ CodecIdle
SmallIdle == AnnIdle /\ NameInit /\ PortInit /\ LogIdle

InitRegistry == RegInit /\ DiscIdle /\ ParamIdle /\ SerialIdle /\ CodecIdle /\ SmallIdle
SpecRegistry == InitRegistry /\ [][RegNext]_vars

InitDiscovery == RegInit /\ DiscInit /\ ParamIdle /\ SerialIdle /\ CodecIdle /\ SmallIdle
SpecDiscovery == InitDiscovery /\ [][DiscNext]_vars

InitStarved == RegInit /\ StarvedInit /\ ParamIdle /\ SerialIdle /\ CodecIdle /\ SmallIdle
SpecStarved == InitStarved /\ [][DiscNext]_vars

InitScan == RegInit /\ ScanInit /\ ParamIdle /\ SerialIdle /\ CodecIdle /\ SmallIdle
SpecScan == InitScan /\ [][ScanNext]_vars

InitParams == RegInit /\ DiscIdle /\ ParamInit /\ SerialIdle /\ CodecIdle /\ SmallIdle
SpecParams == InitParams /\ [][ParamNext]_vars

InitSerial == RegInit /\ DiscIdle /\ ParamIdle /\ SerialInit /\ CodecIdle /\ SmallIdle
SpecSerial == InitSerial /\ [][SerialNext]_vars

InitDump == RegInit /\ DiscIdle /\ ParamInit /\ SerialIdle /\ CodecIdle /\ SmallIdle
SpecDump == InitDump /\ [][DumpNext]_vars

InitCodec == RegInit /\ DiscIdle /\ ParamIdle /\ SerialIdle /\ CodecInit /\ SmallIdle
SpecCodec == InitCodec /\ [][CodecNext]_vars

InitAnnouncement == BigIdle /\ AnnInit /\ NameInit /\ PortInit /\ LogIdle
SpecAnnouncement == InitAnnouncement /\ [][AnnNext]_vars

InitNames == BigIdle /\ AnnIdle /\ NameInit /\ PortInit /\ LogIdle
SpecNames == InitNames /\ [][NameNext]_vars

InitPort == BigIdle /\ AnnIdle /\ NameInit /\ PortInit /\ LogIdle
SpecPort == InitPort /\ [][PortNext]_vars

InitLogging == BigIdle /\ AnnIdle /\ NameInit /\ PortInit /\ LogInit
SpecLogging == InitLogging /\ [][LogNext]_vars

(***************************************************************************)
(* C1: the default pointer, if set, names a present entry; in particular   *)
(* after remove_bridge(n) where n was the default, get_default_bridge()    *)
(* is None or names an entry get_bridge still finds.                       *)
(***************************************************************************)
C1_DefaultNamesPresentEntry ==
    (regLast.op = "remove_bridge" /\ regLast.wasDefault) =>
        \/ get_default_bridge(configuration) = None
        \/ IsSome(get_bridge(configuration,
                             Unwrap(get_default_bridge(configuration))[1]))

C5_Qualifies(r) ==
    /\ r.from[1] = "V4"
    /\ \A i \in Range(listening) : r.from[2] # LocalIp(i)
    /\ IsOk(MionIdentityTryFrom(r.from[2], r.data))

C5_DeliveredIffQualifies ==
    (rxLast.n > 0 /\ ~rxLast.closed) =>
        /\ (rxLast.fate = "sent") <=> C5_Qualifies(rxLast)
        /\ rxLast.fate = "sent" =>
              \E k \in 1..Len(delivered) :
                  /\ delivered[k].n = rxLast.n
                  /\ delivered[k].id =
                        MionIdentityTryFrom(rxLast.from[2], rxLast.data)[2]
        /\ rxLast.fate # "sent" =>
              /\ \A k \in 1..Len(delivered) : delivered[k].n # rxLast.n
              /\ rxLast.fate \in {"own", "v6", "undecodable"} =>
                    (rxPc = "running" \/ rxEnd = "deadline")

C5_Witness ==
    /\ Len(delivered) = 1
    /\ delivered[1].n = 2
    /\ rxLast.fate = "sent"
    /\ rxLast.n = 2

(***************************************************************************)
(* C6: when a per-interface task fails to bind, to enable broadcast or to  *)
(* send, discover_bridges returns that task's error: no receive task and   *)
(* no channel exist, every peer that has not finished is aborted, and the  *)
(* only sockets still open belong to aborted peers not yet cancelled.      *)
(***************************************************************************)
C6_FailureAbortsAll ==
    /\ (discPc = "err" /\ discErr # "JoinFailure") =>
          /\ discErr \in {"BindAddressError", "SetBroadcastFailure", "IOError"}
          /\ \E i \in Ifaces : taskErr[i] = discErr
          /\ rxPc = "none" /\ ~receiverOpen /\ ~senderAlive
          /\ \A i \in Ifaces : Suspended(i) => i \in aborted
          /\ \A i \in sockOpen : Suspended(i) /\ i \in aborted
    /\ discPc = "ok" => \A i \in Ifaces : taskErr[i] = "none"

C6_Witness ==
    /\ discPc = "err"
    /\ discErr = "IOError"
    /\ \E i \in aborted : taskPc[i] = "cancelled"
    /\ sockOpen = {}

(***************************************************************************)
(* C7: once the receive task has woken after the receiver was dropped, it  *)
(* has stopped and released every socket, whatever the datagram that woke  *)
(* it was and without the deadline having to pass.                         *)
(***************************************************************************)
C7_StopsAfterReceiverDropped ==
    (rxLast.n > 0 /\ rxLast.closed) => (rxPc = "done" /\ sockOpen = {})

(***************************************************************************)
(* C8: a scan given an early cutoff e returns no later than e after it     *)
(* started, however many identities arrive in the meantime.                *)
(***************************************************************************)
C8_ReturnsWithinCutoff ==
    (discPc = "ok" /\ consPc = "done" /\ IsSome(early_timeout)) =>
        doneAt <= scanStart + Unwrap(early_timeout)

(***************************************************************************)
(* C3: the block of the write request is the dump of the same call with    *)
(* each mutated location holding the last value given for it and every     *)
(* other byte unchanged; the write request goes out only after the whole   *)
(* 520-byte dump response was read, and the dump is what the device held.  *)
(***************************************************************************)
C3_Location(location_spec) ==
    IF location_spec[1] = "Index" THEN location_spec[2]
    ELSE Unwrap(index_from_parameter_name(location_spec[2]))

C3_Expected(l) ==
    LET hits == { k \in 1..Len(pMuts) : C3_Location(pMuts[k][1]) = l }
    IN  IF hits = {} THEN pGot[l + 1]
        ELSE pMuts[CHOOSE k \in hits : \A j \in hits : j <= k][2]

C3_WriteIsDumpWithMutations ==
    /\ pPc = "set_write" => pGot = devParams
    /\ Len(pWire) >= 2 =>
          /\ pWire[1] = DumpRequestBytes
          /\ \E h \in 1..Len(pHooks) :
                pHooks[h] = <<"read_finished", DUMP_RESPONSE_LENGTH>>
          /\ Len(pGot) = PARAMETER_COUNT
          /\ Len(pWire[2]) = 8 + PARAMETER_COUNT
          /\ SubSeq(pWire[2], 1, 8) = <<1, 0, 0, 0, 0, 2, 0, 0>>
          /\ \A l \in 0..(PARAMETER_COUNT - 1) :
                pWire[2][8 + l + 1] = C3_Expected(l)

C3_Witness ==
    /\ Len(pWire) = 2
    /\ Len(pMuts) = 2
    /\ pMuts[1][1] = Index(2)
    /\ pMuts[2][1] = NameLike(<<"nand", "-", "mode">>)
    /\ pMuts[1][2] # pMuts[2][2]
    /\ pWire[2][8 + 3] = pMuts[2][2]
    /\ pGot[3] # pMuts[2][2]

(***************************************************************************)
(* C9: a set call given a mutation Index(i) with i outside 0..=511 does    *)
(* not crash and sends no write request; once the dump has been received   *)
(* it returns an error.                                                    *)
(***************************************************************************)
C9_OutOfRangeIndexRejected ==
    (\E k \in 1..Len(pMuts) :
        pMuts[k][1][1] = "Index" /\ pMuts[k][1][2] \notin 0..511) =>
        /\ pResult[1] # "Panic"
        /\ Len(pWire) < 2
        /\ (pPc = "done" /\ pGot # <<>>) => pResult[1] = "Err"

(***************************************************************************)
(* C4: for valid UTF-8 input, in any chunking and with no read error, the  *)
(* next_line calls return the segments between carriage returns in order,  *)
(* stripped of the carriage return, then the final unterminated segment if *)
(* it is not empty, then None; None is not returned while bytes remain.    *)
(***************************************************************************)
RECURSIVE C4_Lines(_, _)
C4_Lines(bs, cur) ==
    IF bs = <<>> THEN (IF cur = <<>> THEN <<>> ELSE <<Ok(Some(cur))>>)
    ELSE IF bs[1] = CR THEN <<Ok(Some(cur))>> \o C4_Lines(Tail(bs), <<>>)
    ELSE C4_Lines(Tail(bs), Append(cur, bs[1]))

C4_LinesThenNone ==
    (ValidUtf8(sInput) /\ sIoErrors = 0) =>
        LET expected == Append(C4_Lines(sInput, <<>>), Ok(None))
        IN  /\ Len(sOut) <= Len(expected)
            /\ sOut = SubSeq(expected, 1, Len(sOut))
            /\ Ended => (sOut = expected /\ sSource = <<>> /\ sAvail = <<>>)
            /\ (sSource = <<>> /\ sAvail = <<>> /\ sPc = "idle"
                  /\ sOut # expected) => ENABLED ReadTurn(0)

C4_Witness ==
    /\ sInput = <<97, CR, 195, 169>>
    /\ sIoErrors = 0
    /\ sOut = <<Ok(Some(<<97>>)), Ok(Some(<<195, 169>>)), Ok(None)>>

(***************************************************************************)
(* C10: when a line is not valid UTF-8 next_line returns InvalidData and   *)
(* the raw bytes of that line are back in the reader's buffers, so that a  *)
(* retry can observe them.                                                 *)
(***************************************************************************)
C10_Consumed == SubSeq(sInput, 1, Len(sInput) - Len(sAvail) - Len(sSource))

C10_LastLine ==
    LET c == C10_Consumed
        ends == { p \in 1..(Len(c) - 1) : c[p] = CR }
        start == IF ends = {} THEN 1
                 ELSE (CHOOSE p \in ends : \A q \in ends : q <= p) + 1
    IN  SubSeq(c, start, Len(c))

C10_InvalidLineRestored ==
    (sIoErrors = 0 /\ sOut # <<>> /\ sOut[Len(sOut)] = Err("InvalidData")) =>
        (sBuf = C10_LastLine \/ sBytes = C10_LastLine)

(***************************************************************************)
(* C11: decoding the encoding of an identity built with MionIdentity::new, *)
(* with the identity's own IP as the datagram source, gives back an equal  *)
(* identity; a detailed identity keeps its whole 239-byte block.           *)
(***************************************************************************)
C11_DecodeEncodeIsIdentity ==
    cPc = "decoded" =>
        /\ cBack = Ok(cId)
        /\ IsSome(cId.detailed_all) =>
              (IsOk(cBack) /\ cBack[2].detailed_all = cId.detailed_all)

(***************************************************************************)
(* C12: right after set_default_bridge(n) has returned Ok,                 *)
(* get_default_bridge() is Some((n, ip)) with exactly the name n and the   *)
(* IP stored for n.                                                        *)
(***************************************************************************)
C12_DefaultReadsBackName ==
    (regLast.op = "set_default_bridge" /\ regLast.res = "Ok") =>
        /\ IsSome(get_default_bridge(configuration))
        /\ Unwrap(get_default_bridge(configuration))[1] = regLast.name
        /\ IsSome(get_bridge(configuration, regLast.name))
        /\ Unwrap(get_default_bridge(configuration))[2] =
              Unwrap(get_bridge(configuration, regLast.name))[1]

(***************************************************************************)
(* C13: the dump reads the whole 520-byte response before decoding: a      *)
(* well-formed response is decoded successfully also when it reaches the   *)
(* host in several partial reads, and the not-enough-data error is         *)
(* returned only when the device sent fewer than 520 bytes.                *)
(***************************************************************************)
C13_ReadsWholeResponse ==
    (pKind = "get" /\ pPc = "done" /\ Len(pHooks) = 4) =>
        /\ IsOk(DumpedMionParametersTryFrom(pPeer)) =>
              pResult = DumpedMionParametersTryFrom(pPeer)
        /\ pResult = Err("NotEnoughData") => Len(pPeer) < DUMP_RESPONSE_LENGTH

(***************************************************************************)
(* C14: a get call with timeout t (5 s when none is given) returns no      *)
(* later than t after it was made; the timeout error is returned only at   *)
(* t, and at t a call that has not completed can only complete or time     *)
(* out: the clock does not move past t while the call is running.          *)
(***************************************************************************)
C14_Timeout == IF IsSome(pTimeout) THEN Unwrap(pTimeout) ELSE 5

C14_DumpWithinTimeout ==
    pKind = "get" =>
        /\ pNow <= pStart + C14_Timeout
        /\ pPc = "done" => pDoneAt <= pStart + C14_Timeout
        /\ (pPc = "done" /\ pResult = Err("TimeoutError")) =>
              pDoneAt = pStart + C14_Timeout
        /\ (InSelect /\ pNow = pStart + C14_Timeout) =>
              (ENABLED ParamTimeout /\ ~ENABLED ParamTick)

C14_Witness ==
    /\ pKind = "get"
    /\ pTimeout = None
    /\ pPc = "done"
    /\ pResult = Err("TimeoutError")
    /\ pDoneAt = pStart + 5
    /\ Len(pWire) = 1

(***************************************************************************)
(* C15: during a set call the hooks fire in causal order: the session hook *)
(* with the timeout, connection-established once connected, write-finished *)
(* once the dump request is written, read-finished once the response is    *)
(* read, one set-value hook per mutation in list order, then the set       *)
(* write-finished hook once the write request is written; each has fired   *)
(* before the next phase starts and none fires for a phase not reached.    *)
(***************************************************************************)
C15_SetHook(k) ==
    <<"set_new_value", pGot[C3_Location(pMuts[k][1]) + 1], pMuts[k][2],
      C3_Location(pMuts[k][1])>>

C15_HooksInCausalOrder ==
    pKind = "set" =>
        /\ Len(pHooks) \in 1..(5 + Len(pMuts))
        /\ pHooks[1] = <<"tcp_session", C14_Timeout * 1000>>
        /\ Len(pHooks) >= 2 => pHooks[2] = <<"connection_established">>
        /\ Len(pHooks) >= 3 => pHooks[3] = <<"write_finished", DUMP_RESPONSE_LENGTH>>
        /\ Len(pHooks) >= 4 =>
              \E n \in 0..DUMP_RESPONSE_LENGTH : pHooks[4] = <<"read_finished", n>>
        /\ \A k \in 1..Len(pMuts) :
              Len(pHooks) >= 4 + k =>
                  (pGot # <<>> /\ pHooks[4 + k] = C15_SetHook(k))
        /\ Len(pHooks) = 5 + Len(pMuts) =>
              pHooks[5 + Len(pMuts)] = <<"write_set_finished", SET_RESPONSE_LENGTH>>
        /\ (Len(pWire) >= 1) <=> (Len(pHooks) >= 3)
        /\ (Len(pWire) = 2) <=> (Len(pHooks) = 5 + Len(pMuts))
        /\ pPc = "connect" => Len(pHooks) = 1
        /\ pPc = "dump_write" => Len(pHooks) = 2
        /\ pPc = "dump_read" => Len(pHooks) = 3
        /\ pPc = "set_write" => Len(pHooks) = 4 + Len(pMuts)
        /\ pPc = "set_read" => Len(pHooks) = 5 + Len(pMuts)

C15_Witness ==
    /\ pKind = "set"
    /\ pPc = "set_read"
    /\ Len(pMuts) = 2
    /\ pMuts[1][1] = Index(511)
    /\ pMuts[2][1] = NameLike(<<"major">>)
    /\ Len(pHooks) = 7
    /\ pHooks[5][4] = 511
    /\ pHooks[6][4] = 3

(***************************************************************************)
(* C16: identities decoded from datagrams of one socket are pushed on the  *)
(* stream in the order the datagrams arrived on that socket, and the       *)
(* receiver is handed them in the order they were pushed.  (Across sockets *)
(* the order is whatever the select_all yields.)                           *)
(***************************************************************************)
C16_ArrivalOrderKeptPerSocket ==
    /\ \A j, k \in 1..Len(delivered) :
          (j < k /\ delivered[j].sock = delivered[k].sock) =>
              delivered[j].n < delivered[k].n
    /\ (mode = "stream" /\ consPc = "running") =>
          /\ Len(chan) <= Len(delivered)
          /\ \A k \in 1..Len(chan) :
                chan[k] = delivered[Len(delivered) - Len(chan) + k].id

C16_Witness ==
    /\ Len(delivered) = 2
    /\ delivered[1].sock = delivered[2].sock
    /\ delivered[1].id # delivered[2].id
    /\ Len(chan) = 2
    /\ \E i \in Ifaces : i # delivered[1].sock /\ i \in streams

(***************************************************************************)
(* C17: the Vec of the collect form never holds two equal identities and   *)
(* holds exactly the distinct identities the scan was handed by the        *)
(* stream, which are the first ones pushed on it; a scan without an early  *)
(* cutoff returns every distinct identity that was pushed on the stream.   *)
(***************************************************************************)
C17_CollectHoldsEachIdentityOnce ==
    mode = "collect" =>
        /\ \A j, k \in 1..Len(results) : j # k => results[j] # results[k]
        /\ Range(results) = Range(received)
        /\ Len(received) <= Len(delivered)
        /\ \A k \in 1..Len(received) : received[k] = delivered[k].id
        /\ (discPc = "ok" /\ consPc = "done" /\ early_timeout = None) =>
              Range(results) = { delivered[k].id : k \in 1..Len(delivered) }

C17_Witness ==
    /\ mode = "collect"
    /\ discPc = "ok"
    /\ consPc = "done"
    /\ early_timeout = None
    /\ Len(delivered) = 2
    /\ delivered[1].id = delivered[2].id
    /\ Len(results) = 1

(***************************************************************************)
(* C18: find_mion by MAC or by name returns the first identity handed over *)
(* by the stream whose MAC (name) equals the filter, and returns None when *)
(* none of the identities it was handed matches; without an early cutoff,  *)
(* None means that no matching identity was pushed on the stream at all.   *)
(***************************************************************************)
C18_Equals(identity) ==
    IF find_by[1] = "MacAddress" THEN identity.mac = find_by[2]
    ELSE identity.name = find_by[2]

C18_FindReturnsFirstMatch ==
    (mode = "find" /\ discPc = "ok" /\ consPc = "done") =>
        /\ \A k \in 1..Len(received) : received[k] = delivered[k].id
        /\ results # <<>> =>
              /\ received # <<>>
              /\ results = <<received[Len(received)]>>
              /\ C18_Equals(results[1])
              /\ \A k \in 1..(Len(received) - 1) : ~C18_Equals(received[k])
        /\ results = <<>> =>
              \A k \in 1..Len(received) : ~C18_Equals(received[k])
        /\ (results = <<>> /\ early_timeout = None) =>
              \A k \in 1..Len(delivered) : ~C18_Equals(delivered[k].id)

C18_Witness ==
    /\ mode = "find"
    /\ find_by = <<"Name", <<66>>>>
    /\ consPc = "done"
    /\ Len(received) = 2
    /\ received[1].name = <<65>>
    /\ results = <<received[2]>>

(***************************************************************************)
(* C19: when no interface is eligible discovery does not fail, opens no    *)
(* socket, delivers nothing, and once the deadline has passed the receive  *)
(* task has ended and the receiver sees end-of-stream.                     *)
(***************************************************************************)
C19_NoInterfaceStreamEnds ==
    (\A i \in Ifaces : ifaceCfg[i] \in {"absent", "no_broadcast"}) =>
        /\ discPc = "err" => discErr = "JoinFailure"
        /\ sockOpen = {}
        /\ delivered = <<>>
        /\ (discPc = "ok" /\ now > createdAt + MION_ANNOUNCE_TIMEOUT_SECONDS) =>
              /\ rxPc = "done"
              /\ ~senderAlive
              /\ consPc = "running" => ENABLED StreamRecv

(***************************************************************************)
(* C20: a scan given an early cutoff of 0 seconds returns an empty result, *)
(* also when an identity is already queued at its first select!.           *)
(***************************************************************************)
C20_ZeroCutoffReturnsEmpty ==
    (discPc = "ok" /\ consPc = "done" /\ early_timeout = Some(0)) =>
        results = <<>>

(***************************************************************************)
(* C21: when a set call succeeds, the keys of the old-values map are       *)
(* exactly the mutated locations, and the value at each is the byte the    *)
(* dump taken at the start of the call holds there, also for a location    *)
(* that is mutated more than once.                                         *)
(***************************************************************************)
C21_OldValuesAreDumpBytes ==
    (pKind = "set" /\ pPc = "done" /\ IsOk(pResult)) =>
        /\ DOMAIN pResult[2][2] = { C3_Location(pMuts[k][1]) : k \in 1..Len(pMuts) }
        /\ \A l \in DOMAIN pResult[2][2] : pResult[2][2][l] = pGot[l + 1]
        /\ pGot = SubSeq(pPeer, 9, DUMP_RESPONSE_LENGTH)

C21_Witness ==
    /\ pKind = "set"
    /\ pPc = "done"
    /\ IsOk(pResult)
    /\ Len(pMuts) = 2
    /\ pMuts[1][1] = NameLike(<<"2">>)
    /\ pMuts[2][1] = Index(2)
    /\ pMuts[1][2] # pGot[3]
    /\ DOMAIN pResult[2][2] = {2}

(***************************************************************************)
(* C28: a set call whose mutation list holds a name that does not resolve  *)
(* sends no write request and leaves the device's block as it was, and     *)
(* once the dump is in it returns the unknown-parameter-name error.        *)
(***************************************************************************)
C28_Resolves(location_spec) ==
    \/ location_spec[1] = "Index"
    \/ location_spec[2] \in NandModeNames \cup SdkNames("major")
                               \cup SdkNames("minor") \cup SdkNames("misc")
    \/ IsSome(ParseUsize(location_spec[2])) /\ Unwrap(ParseUsize(location_spec[2])) <= 511

C28_AllOrNothing ==
    (pKind = "set" /\ \E k \in 1..Len(pMuts) : ~C28_Resolves(pMuts[k][1])) =>
        /\ Len(pWire) < 2
        /\ pGot # <<>> => devParams = pGot
        /\ (pPc = "done" /\ pGot # <<>>) =>
              pResult = Err("MIONParameterNameNotKnown")

(***************************************************************************)
(* C29: a set call with timeout t returns no later than t after it was     *)
(* made, the dump phase and the write phase counted together.              *)
(***************************************************************************)
C29_SetWithinTimeout ==
    (pKind = "set" /\ pPc = "done") => pDoneAt <= pStart + C14_Timeout

(***************************************************************************)
(* C22: whenever next_line has returned and the next call has not begun,   *)
(* the byte buffer and the string buffer are both empty, or the string     *)
(* buffer is empty and the byte buffer holds only the first bytes of one   *)
(* UTF-8 sequence that is not complete yet.                                *)
(***************************************************************************)
C22_StrictPrefix(bs) ==
    /\ bs # <<>>
    /\ LET n == IF bs[1] >= 194 /\ bs[1] <= 223 THEN 2
                ELSE IF bs[1] >= 224 /\ bs[1] <= 239 THEN 3
                ELSE IF bs[1] >= 240 /\ bs[1] <= 244 THEN 4
                ELSE 0
       IN  /\ Len(bs) < n
           /\ \A k \in 2..Len(bs) : IsContinuation(bs[k])

C22_BuffersEmptyBetweenCalls ==
    (sPc = "idle" /\ sOut # <<>>) =>
        \/ sBytes = <<>> /\ sBuf = <<>>
        \/ sBuf = <<>> /\ C22_StrictPrefix(sBytes)

(***************************************************************************)
(* C23 (as amended): a packet longer than 33 bytes is rejected as an       *)
(* unexpected trailer holding the bytes after the 33rd; a packet of 26 to  *)
(* 33 bytes whose bytes after the 25th are not the detail marker and two   *)
(* zero bytes is rejected as an unknown command when its first byte is not *)
(* the announce command, and as a field encoded incorrectly otherwise.     *)
(***************************************************************************)
C23_Marker == <<101, 110, 117, 109, 86, 49, 0, 0>>

C23_BadTail ==
    /\ Len(annPacket) > 25
    /\ SubSeq(annPacket, 26, Len(annPacket)) # C23_Marker

C23_LongIsTrailerShortIsField ==
    annResult # <<"None">> =>
        /\ Len(annPacket) > 33 =>
              annResult = Err(<<"UnexpectedTrailer",
                                SubSeq(annPacket, 34, Len(annPacket))>>)
        /\ (Len(annPacket) <= 33 /\ C23_BadTail) =>
              /\ annResult[1] = "Err"
              /\ annResult[2][1] = (IF annPacket[1] = 42
                                    THEN "FieldEncodedIncorrectly"
                                    ELSE "UnknownCommand")

C23_Witness ==
    /\ Len(annPacket) = 30
    /\ annPacket[1] = 42
    /\ SubSeq(annPacket, 26, 30) = SubSeq(C23_Marker, 1, 5)
    /\ annResult = Err(<<"FieldEncodedIncorrectly", "detail">>)

(***************************************************************************)
(* C23 (as stated): every packet longer than 33 bytes, and every packet    *)
(* longer than 25 bytes whose bytes after the 25th are not the detail      *)
(* marker and two zero bytes, is rejected as an unexpected trailer.        *)
(***************************************************************************)
C23_BadTailIsTrailer ==
    (annResult # <<"None">> /\ (Len(annPacket) > 33 \/ C23_BadTail)) =>
        (annResult[1] = "Err" /\ annResult[2][1] = "UnexpectedTrailer")

(***************************************************************************)
(* C24 (as amended): every index a name resolves to lies in 0..511; a      *)
(* decimal string resolves to its value when that is at most 511 and to    *)
(* nothing above; a name the table does not hold resolves to nothing; the  *)
(* names of one well-known parameter all resolve to the same index, and    *)
(* names of different well-known parameters to different indices.          *)
(***************************************************************************)
C24_WellKnown ==
    NandModeNames \cup SdkNames("major") \cup SdkNames("minor") \cup SdkNames("misc")

C24_Parameter(name) ==
    CHOOSE w \in { "mode", "major", "minor", "misc" } :
        \E k \in 1..Len(name) : name[k] = w

C24_RangeAndDecimals ==
    \A name \in DOMAIN lookups :
        /\ IsSome(lookups[name]) => Unwrap(lookups[name]) \in 0..511
        /\ name \in DecimalNames =>
              lookups[name] = (IF DecimalValue(SelectSeq(name, IsDigit)) <= 511
                               THEN Some(DecimalValue(SelectSeq(name, IsDigit)))
                               ELSE None)
        /\ name \in UnknownNames => lookups[name] = None
        /\ name \in C24_WellKnown => IsSome(lookups[name])

C24_SynonymsShareAnIndex ==
    /\ C24_RangeAndDecimals
    /\ \A n1, n2 \in (DOMAIN lookups) \cap C24_WellKnown :
          (lookups[n1] = lookups[n2]) <=> (C24_Parameter(n1) = C24_Parameter(n2))

C24_Witness ==
    /\ DOMAIN lookups = { <<"nand", "-", "mode">>, <<"nand", "_", "mode">> }
    /\ \A name \in DOMAIN lookups : lookups[name] = Some(2)

(***************************************************************************)
(* C24 (as stated): the same range, decimal and unknown-name cases, and no *)
(* two distinct well-known names or synonyms resolve to the same index.    *)
(***************************************************************************)
C24_InjectiveOnNames ==
    /\ C24_RangeAndDecimals
    /\ \A n1, n2 \in (DOMAIN lookups) \cap C24_WellKnown :
          n1 # n2 => lookups[n1] # lookups[n2]

(***************************************************************************)
(* C26 (as amended): a timeout setter called with a duration whose whole   *)
(* milliseconds lie in 1 ..= 2^32 - 2 succeeds and stores them; called     *)
(* with any other duration it returns an error and leaves the stored       *)
(* timeout as it was; both stored timeouts are always in 1 ..= 2^32 - 2.   *)
(***************************************************************************)
C26_InRange(ms) ==
    /\ ms # <<0, 0>>
    /\ ms[1] <= 65535
    /\ ms # <<65535, 65535>>

C26_Stored ==
    IF portLast.op = "set_read_timeout" THEN read_timeout_ms ELSE write_timeout_ms

C26_RejectsOutOfRange ==
    /\ C26_InRange(read_timeout_ms)
    /\ C26_InRange(write_timeout_ms)
    /\ portLast.op # "new" =>
          IF C26_InRange(portLast.new_timeout.millis)
          THEN portLast.res = "Ok" /\ C26_Stored = portLast.new_timeout.millis
          ELSE portLast.res = "Err" /\ C26_Stored = portLast.before

C26_Witness ==
    /\ portLast.op = "set_read_timeout"
    /\ portLast.new_timeout.millis = <<65536, 0>>
    /\ portLast.res = "Err"
    /\ read_timeout_ms = <<0, 2>>

(***************************************************************************)
(* C26 (as stated): a timeout setter succeeds for every duration and       *)
(* stores the duration clamped into 1 ms ..= 2^32 - 2 ms.                  *)
(***************************************************************************)
C26_Clamp(ms) ==
    IF ms = <<0, 0>> THEN <<0, 1>>
    ELSE IF C26_InRange(ms) THEN ms
    ELSE <<65535, 65534>>

C26_ClampsEveryDuration ==
    portLast.op # "new" =>
        /\ portLast.res = "Ok"
        /\ C26_Stored = C26_Clamp(portLast.new_timeout.millis)
        /\ C26_InRange(C26_Stored)

(***************************************************************************)
(* C27: once every call of install_logging_handlers has returned, exactly  *)
(* one of them, the first to pass the guard, returned Ok and installed the *)
(* handlers; every other call returned an error and installed nothing.     *)
(***************************************************************************)
C27_ExactlyOneInstall ==
    (\A c \in Callers : logPc[c] = "done") =>
        /\ Cardinality({ c \in Callers : logResult[c] = "Ok" }) = 1
        /\ installed = 1

(***************************************************************************)
(* C25: the file write_to_disk produces has no line feed that is not       *)
(* immediately preceded by a carriage return.                              *)
(***************************************************************************)
C25_EveryLineEndsCrLf ==
    (regLast.op = "write_to_disk" /\ regLast.res = "Ok") =>
        \A k \in 1..Len(regLast.out) :
            regLast.out[k] = "\n" => (k > 1 /\ regLast.out[k - 1] = "\r")

(***************************************************************************)
(* C30: list_bridges() has exactly one entry per present bridge name, the  *)
(* entry of each present name equals get_bridge of that name, and at most  *)
(* one entry is flagged default, the one get_default_bridge() names.       *)
(***************************************************************************)
C30_Present == { Tail(key) : key \in BridgeKeys(configuration) }

C30_ListMatchesGetBridge ==
    regLast.op = "list_bridges" =>
        /\ DOMAIN regLast.out = C30_Present
        /\ \A n \in C30_Present :
              regLast.out[n] = Unwrap(get_bridge(configuration, n))
        /\ Cardinality({ n \in DOMAIN regLast.out : regLast.out[n][2] }) <= 1
        /\ \A n \in DOMAIN regLast.out :
              regLast.out[n][2] =>
                  /\ IsSome(get_default_bridge(configuration))
                  /\ Unwrap(get_default_bridge(configuration))[1] = n

====
